---- MODULE Spec2Model ----
(***************************************************************************)
(* Audio cache and book pre-cache pipeline of readest's VieNeu-TTS layer.  *)
(*                                                                         *)
(*  - PreCacheService (services/tts/PreCacheService.ts): the pre-cache job *)
(*    of one service instance, one step per await of preCacheBook, plus    *)
(*    the pause / resume / cancel calls a caller can make at any time.     *)
(*  - the synthesis route (api/tts/vieneu/route.ts): the POST handler of   *)
(*    concurrent requests against the cache directory, one step per file   *)
(*    system call (each fs promise is one atomic operation).               *)
(*                                                                         *)
(*  - the check, book-status and stats routes (api/tts/vieneu/check,      *)
(*    book-status, stats): the handlers that look entries up, count them,  *)
(*    aggregate their metadata and evict them.                             *)
(*  - generateCacheKey and extractBookHash, on strings represented as      *)
(*    sequences of characters.                                             *)
(*  - extractBookText (PreCacheService.ts), one step per await, and the    *)
(*    PreCacheDialog component with the usePreCacheStore entry of its book.*)
(*                                                                         *)
(* Spec      : the pre-cache job.                                          *)
(* LiveSpec  : the pre-cache job without cancel and without failures,      *)
(*             under the fairness of timers and settling requests.         *)
(* SeqSpec   : synthesis requests served one after the other.              *)
(* ConcSpec  : synthesis requests served concurrently.                     *)
(* LookupSpec: synthesis, check and book-status requests, one at a time.   *)
(* AdminSpec : synthesis, statistics and eviction requests, one at a time. *)
(* KeySpec   : cache keys derived by the synthesis and the check route.    *)
(* ExtractSpec: extractBookText over a paginated view, then the cache check *)
(*             and the synthesis requests of the chunks it returned.       *)
(* DialogSpec: PreCacheDialog, its buttons and the mirrored progress of the *)
(*             book in usePreCacheStore.                                   *)
(* ReopenSpec: the dialog closed and opened again while the job runs.      *)
(* RunSpec   : the pre-cache job with failures, cancel and any number of   *)
(*             pauses, under the fairness of settling calls and of a       *)
(*             resume or cancel after every pause.                         *)
(* PercentSpec: one call of updateProgress, in double-precision arithmetic.*)
(* TopSpec   : the topUsed and recent lists of the stats route.            *)
(* HttpSpec  : one request to the synthesis, check or load-model route     *)
(*             and the status of its response.                             *)
(***************************************************************************)
EXTENDS Integers, Sequences, FiniteSets, TLC

\* ----------------------------------------------------------------- bounds
MaxChunks == 6

MaxPauses == 2

MaxReq == 3

\* longest text whose cache key is derived
MaxLen == 4

\* most pages of a book whose text is extracted
MaxPages == 3

\* most chunks of the book of the dialog
MaxShown == 6

\* largest total passed to updateProgress
MaxTotal == 40

\* most entries whose metadata the stats route collects
MaxEntries == 11

\* states mirrored for a book before the buttons of its dialog are left alone
MaxMirrored == 7

\* ------------------------------------------------------ program constants
BATCH_SIZE == 5

\* const MAX_PAGES = 1000
MAX_PAGES == 1000

\* --------------------------------------------------------------- state
VARIABLES
  \* PreCacheService instance and the running preCacheBook call
  jpc,             \* position of preCacheBook: idle, extracting, checking, sleeping, awaiting, done
  hasController,   \* this.abortController !== null
  aborted,         \* this.abortController.signal.aborted
  isPaused,        \* this.isPaused
  allTexts,        \* number of extracted chunks (chunks are 1..allTexts, in extraction order),
                   \* NotExtracted before extractBookText has resolved
  uncachedTexts,   \* the uncached chunks, in extraction order
  i,               \* loop index of the batch loop
  completed,       \* let completed
  inflight,        \* synthesizeText calls made and not yet settled
  succeeded,       \* chunks whose synthesizeText resolved
  failedReq,       \* chunks whose synthesizeText rejected
  reports,         \* the sequence of onProgress calls
  \* history of the run, for stating the properties
  cancelAt,        \* where the call of cancel() that aborted the signal found the job:
                   \* [pc: the position of preCacheBook, sent: the calls of synthesizeText made]
  backendFailed,   \* some request was rejected for a reason other than the abort
  pauses,          \* number of pause() calls counted
  slept,           \* the job has waited in the pause loop
  \* cache directory and the requests to the routes
  legacy,          \* flat layout: cache key -> [audio, meta]
  nested,          \* current layout: <<book, voice, cache key>> -> [audio, meta]
  rpc,             \* request -> position in its handler
  rkind,           \* request -> route: "synthesize", "check", "book-status", "stats", "evict"
  rraw,            \* request -> bookKey of the body or query (<<>>: absent)
  rvoice,          \* request -> voice of the body or query (<<>>: absent)
  rkey,            \* request -> cacheKey
  rbook,           \* request -> effectiveBookKey
  rbuf,            \* request -> audio buffer held
  rmeta,           \* request -> metadata buffer held
  rexists,         \* request -> result of isCached: "none", "true", "false"
  rmigrated,       \* request -> isCached called migrateCacheFile
  rlegacyOnly,     \* request -> the entry was legacy-only when the request started
  rresp,           \* request -> response: "none", "HIT", "MISS", "ERROR", "OK"
  rcalls,          \* request -> calls made to the synthesis backend
  rfiles,          \* request -> cache keys (texts, audio files) still to be handled
  rfound,          \* request -> cache keys of the files deleted
  rall,            \* request -> results of the check handler / allMetadata of the stats handler
  rcount,          \* request -> cachedCount / deletedCount of the response
  rvoices,         \* request -> voice -> count of the per-voice breakdown
  legacy0,         \* the flat layout as it was before any request
  lastWriter,      \* path -> who wrote the nested audio last: "none", "migrate", "cacheAudio"
  storedAs,        \* path -> bookKey of the request whose cacheAudio wrote the entry
  hits,            \* path -> HIT responses served since cacheAudio created the entry
  nreq,            \* number of requests started
  \* derivation of cache keys
  keyText,         \* the two texts
  keyVoice,        \* the voice
  synthKeys,       \* their keys as derived by the synthesis route (<<>>: not yet)
  checkKeys,       \* their keys as derived by the check route (<<>>: not yet)
  \* extractBookText on a view, and the check and synthesis that follow it
  xpc,             \* position of extractBookText: idle, getCFI, goTo, first, next, page,
                   \* restore, returned, thrown; then checked, synthesized
  pages,           \* the book: the text of the mark of each page
  location,        \* the page the view shows
  location0,       \* the page the view showed before extractBookText was called
  currentLocation, \* let currentLocation (NoLocation: null)
  pageCount,       \* let pageCount
  extracted,       \* const allTexts of extractBookText
  stored,          \* cache keys of the entries in the store
  totalCount,      \* totalCount of the check response
  requests,        \* calls of synthesizeText made by the batch loop
  \* PreCacheDialog and usePreCacheStore
  progress,        \* progress.state of the dialog
  isStarted,       \* isStarted of the dialog
  activePreCaches, \* state of the entry of the book in activePreCaches (Absent: no entry)
  mirrored,        \* the states set by setPreCacheProgress for the book, in order
  dialogOpen,      \* the dialog is mounted
  removeTimer,     \* pending timers of handleCancel
  preCacheService, \* the instance of the mounted dialog: the job's or another
  \* the lists of the stats route
  spc,             \* position of the GET handler of the stats route
  allMetadata,     \* the metadata it collected
  topUsed,         \* topUsed of its response
  recent,          \* recent of its response
  \* the response of a route
  hpc,             \* position of the handler
  hreq,            \* the request and what its calls will do
  hres             \* the response

jobVars == <<jpc, hasController, aborted, isPaused, allTexts, uncachedTexts, i, completed,
             inflight, succeeded, failedReq, reports, cancelAt,
             backendFailed, pauses, slept>>

storeVars == <<legacy, nested, rpc, rkind, rraw, rvoice, rkey, rbook, rbuf, rmeta, rexists,
               rmigrated, rlegacyOnly, rresp, rcalls, rfiles, rfound, rall, rcount, rvoices,
               legacy0, lastWriter, storedAs, hits, nreq>>

keyVars == <<keyText, keyVoice, synthKeys, checkKeys>>

viewVars == <<xpc, pages, location, location0, currentLocation, pageCount, extracted,
              stored, totalCount, requests>>

dialogVars == <<progress, isStarted, activePreCaches, mirrored, dialogOpen, removeTimer,
               preCacheService>>

statVars == <<spc, allMetadata, topUsed, recent>>

httpVars == <<hpc, hreq, hres>>

vars == <<jpc, hasController, aborted, isPaused, allTexts, uncachedTexts, i, completed,
          inflight, succeeded, failedReq, reports, cancelAt,
          backendFailed, pauses, slept,
          legacy, nested, rpc, rkind, rraw, rvoice, rkey, rbook, rbuf, rmeta, rexists,
          rmigrated, rlegacyOnly, rresp, rcalls, rfiles, rfound, rall, rcount, rvoices,
          legacy0, lastWriter, storedAs, hits, nreq,
          keyText, keyVoice, synthKeys, checkKeys,
          xpc, pages, location, location0, currentLocation, pageCount, extracted,
          stored, totalCount, requests,
          progress, isStarted, activePreCaches, mirrored, dialogOpen, removeTimer,
          preCacheService,
          spc, allMetadata, topUsed, recent,
          hpc, hreq, hres>>

\* ------------------------------------------------------------ helpers
Min(a, b) == IF a < b THEN a ELSE b

Last(s) == s[Len(s)]

\* Math.round((current / total) * 100), 0 when total is 0: the integer nearest
\* to 100 * current / total, halves upwards.  The doubles of updateProgress give
\* this integer for every total below 40 (see `percentage`, which computes them).
Percentage(current, total) ==
  IF total > 0 THEN (200 * current + total) \div (2 * total) ELSE 0

\* the PreCacheProgress record built by updateProgress; error is "none" when
\* no error detail is passed
Progress(state, current, total) ==
  [state |-> state, current |-> current, total |-> total,
   percentage |-> Percentage(current, total), error |-> "none"]

\* updateProgress('failed', 0, 0, message, error)
Failure(error) == [Progress("failed", 0, 0) EXCEPT !.error = error]

\* const allTexts before extractBookText has resolved
NotExtracted == -1

\* cacheStatus.results.filter(r => !r.cached).map(r => r.text)
RECURSIVE Uncached(_, _, _)
Uncached(n, cached, k) ==
  IF k > n THEN <<>>
  ELSE (IF k \in cached THEN <<>> ELSE <<k>>) \o Uncached(n, cached, k + 1)

\* the answers of the cache check the model draws from: nothing cached,
\* one chunk cached, everything cached
CachedChoices(n) ==
  {S \in SUBSET (1..n) : Cardinality(S) <= 1 \/ S = 1..n}

\* uncachedTexts.slice(i, i + BATCH_SIZE)
Batch_wide(unc, idx) ==
  {unc[k] : k \in (idx + 1)..Min(idx + BATCH_SIZE + 1, Len(unc))}

Batch(unc, idx) ==
  {unc[k] : k \in (idx + 1)..Min(idx + BATCH_SIZE, Len(unc))}

\* the condition of   while (this.isPaused)
WaitIfPaused_never == FALSE

WaitIfPaused == isPaused

\* every call made to synthesizeText so far
Dispatched == inflight \cup succeeded \cup failedReq

\* ============================================================ double-precision arithmetic
\* The arithmetic of  Math.round((current / total) * 100)  on IEEE 754 doubles:
\* a double is written by the 53 binary digits of its significand, the first
\* one 1, and the exponent of that first digit.

\* the digits of the significand of a double
SignificandBits == 53

\* the number written by the first k of the binary digits
RECURSIVE Value(_, _)
Value(bits, k) == IF k = 0 THEN 0 ELSE 2 * Value(bits, k - 1) + bits[k]

\* the binary digits of n, most significant first
RECURSIVE Binary(_)
Binary(n) == IF n = 0 THEN <<>> ELSE Binary(n \div 2) \o <<n % 2>>

\* the first `len` digits plus one in the last place, when they are not all ones
Increment(bits, len) ==
  LET zero == CHOOSE z \in 1..len : bits[z] = 0 /\ \A k \in (z + 1)..len : bits[k] = 1
  IN [k \in 1..len |-> IF k < zero THEN bits[k] ELSE IF k = zero THEN 1 ELSE 0]

\* round to nearest, ties to even: the double nearest to the number written by
\* `bits` (first digit 1, of exponent `exp`), followed by more when `inexact`
RoundToDouble(bits, exp, inexact) ==
  LET rest == inexact \/ \E k \in (SignificandBits + 2)..Len(bits) : bits[k] = 1
      up == bits[SignificandBits + 1] = 1 /\ (rest \/ bits[SignificandBits] = 1)
      carry == up /\ \A k \in 1..SignificandBits : bits[k] = 1
  IN [bits |-> IF carry THEN [k \in 1..SignificandBits |-> IF k = 1 THEN 1 ELSE 0]
               ELSE IF up THEN Increment(bits, SignificandBits)
               ELSE [k \in 1..SignificandBits |-> bits[k]],
      exp |-> IF carry THEN exp + 1 ELSE exp]

\* what is left of r / d (r < d) after j binary digits of the quotient
RECURSIVE Remainder(_, _, _)
Remainder(r, d, j) == IF j = 0 THEN r ELSE (2 * Remainder(r, d, j - 1)) % d

\* the least k with n * 2^k >= d
RECURSIVE Shift(_, _)
Shift(n, d) == IF n >= d THEN 0 ELSE 1 + Shift(2 * n, d)

\* 2^k
RECURSIVE Pow2(_)
Pow2(k) == IF k = 0 THEN 1 ELSE 2 * Pow2(k - 1)

\* the double nearest to 2^exp * (1 + r / d), for integers 0 <= r < d
Quotient(r, d, exp) ==
  CHOOSE f \in
    {RoundToDouble(bits, exp, Remainder(r, d, SignificandBits) # 0) :
       bits \in {<<1>> \o [j \in 1..SignificandBits |->
                             (2 * Remainder(r, d, j - 1)) \div d]}} : TRUE

\* the double n / d, for integers 0 < n <= d
Divide(n, d) == Quotient(n * Pow2(Shift(n, d)) - d, d, -Shift(n, d))

\* the carry out of digit k in the product of the number written by `bits`
\* and the integer n
RECURSIVE Carry(_, _, _)
Carry(bits, n, k) ==
  IF k > Len(bits) THEN 0 ELSE (bits[k] * n + Carry(bits, n, k + 1)) \div 2

\* the digits of that product
Product(bits, n) ==
  Binary(Carry(bits, n, 1)) \o
    [k \in 1..Len(bits) |-> (bits[k] * n + Carry(bits, n, k + 1)) % 2]

\* the double f * n, for a double f and an integer n > 1
Times(f, n) ==
  CHOOSE g \in {RoundToDouble(p, f.exp + Len(p) - SignificandBits, FALSE) :
                  p \in {Product(f.bits, n)}} : TRUE

\* Math.round(f): the nearest integer, halves upwards
MathRound(f) ==
  IF f.exp < -1 THEN 0
  ELSE Value(f.bits, f.exp + 1) + f.bits[f.exp + 2]

\* total > 0 ? Math.round((current / total) * 100) : 0, for 0 <= current <= total
percentage(current, total) ==
  IF total > 0 /\ current > 0
  THEN CHOOSE p \in {MathRound(g) : g \in {Times(f, 100) : f \in {Divide(current, total)}}} : TRUE
  ELSE 0

\* updateProgress(state, current, total, message): the PreCacheProgress passed
\* to onProgress
updateProgress(state, current, total) ==
  reports' = Append(reports, [state |-> state, current |-> current, total |-> total,
                              percentage |-> percentage(current, total),
                              error |-> "none"])

\* the calls of updateProgress that preCacheBook makes for books of up to
\* MaxTotal chunks
Calls ==
  {<<"extracting", 0, 0>>, <<"failed", 0, 0>>}
    \cup {<<"checking", 0, t>> : t \in 1..MaxTotal}
    \cup {<<"completed", t, t>> : t \in 1..MaxTotal}
    \cup {call \in {"synthesizing", "cancelled"} \X (0..MaxTotal) \X (1..MaxTotal) :
            call[2] <= call[3]}

\* ============================================================ the pre-cache job
\* the batch loop from the top of an iteration:  for (...; i < length; ...) {
\* if (aborted) { report cancelled; return }  while (isPaused) ...  dispatch }
\* and the 'completed' report after the loop
Dispatch(unc, idx, reps) ==
  IF WaitIfPaused
  THEN /\ jpc' = "sleeping"
       /\ inflight' = {}
       /\ reports' = reps
       /\ slept' = TRUE
  ELSE /\ jpc' = "awaiting"
       /\ inflight' = Batch(unc, idx)
       /\ reports' = reps
       /\ slept' = slept

LoopTop(unc, idx, comp, reps) ==
  /\ i' = idx
  /\ IF idx >= Len(unc)
     THEN /\ jpc' = "done"
          /\ inflight' = {}
          /\ reports' = Append(reps, Progress("completed", Len(unc), Len(unc)))
          /\ slept' = slept
     ELSE IF aborted
     THEN /\ jpc' = "done"
          /\ inflight' = {}
          /\ reports' = Append(reps, Progress("cancelled", comp, Len(unc)))
          /\ slept' = slept
     ELSE Dispatch(unc, idx, reps)

\* preCacheBook up to the await of extractBookText
Start ==
  /\ jpc = "idle"
  /\ jpc' = "extracting"
  /\ hasController' = TRUE
  /\ aborted' = FALSE
  /\ isPaused' = FALSE
  /\ reports' = Append(reports, Progress("extracting", 0, 0))
  /\ UNCHANGED <<allTexts, uncachedTexts, i, completed, inflight, succeeded, failedReq,
                 cancelAt, backendFailed, pauses, slept>>

ExtractDone_checks(n) ==
  /\ jpc = "extracting"
  /\ allTexts' = n
  /\ jpc' = "checking"
  /\ reports' = Append(reports, Progress("checking", 0, n))
  /\ UNCHANGED <<hasController, aborted, isPaused, uncachedTexts, i, completed, inflight,
                 succeeded, failedReq, cancelAt, backendFailed, pauses, slept>>

\* extractBookText resolved with n chunks
ExtractDone(n) ==
  /\ jpc = "extracting"
  /\ allTexts' = n
  /\ IF n = 0
     THEN /\ jpc' = "done"
          /\ reports' = Append(reports, Failure("Book appears to be empty"))
     ELSE /\ jpc' = "checking"
          /\ reports' = Append(reports, Progress("checking", 0, n))
  /\ UNCHANGED <<hasController, aborted, isPaused, uncachedTexts, i, completed, inflight,
                 succeeded, failedReq, cancelAt, backendFailed, pauses, slept>>

\* a catch block that reports nothing
JobThrows_silent ==
  /\ jpc \in {"extracting", "checking"}
  /\ jpc' = "done"
  /\ UNCHANGED <<hasController, aborted, isPaused, allTexts, uncachedTexts, i, completed,
                 inflight, succeeded, failedReq, reports, cancelAt, backendFailed,
                 pauses, slept>>

\* extractBookText or checkCachedTexts rejected: the catch block
JobThrows ==
  /\ jpc \in {"extracting", "checking"}
  /\ jpc' = "done"
  /\ reports' = Append(reports, Failure("errorMessage"))
  /\ UNCHANGED <<hasController, aborted, isPaused, allTexts, uncachedTexts, i, completed,
                 inflight, succeeded, failedReq, cancelAt, backendFailed,
                 pauses, slept>>

CheckDone_noShortcut(cached) ==
  /\ jpc = "checking"
  /\ LET unc == Uncached(allTexts, cached, 1) IN
       /\ uncachedTexts' = unc
       /\ LoopTop(unc, 0, 0, Append(reports, Progress("synthesizing", 0, Len(unc))))
  /\ UNCHANGED <<hasController, aborted, isPaused, allTexts, completed, succeeded,
                 failedReq, cancelAt, backendFailed, pauses>>

\* checkCachedTexts resolved, reporting the chunks of `cached` as cached
CheckDone(cached) ==
  /\ jpc = "checking"
  /\ LET unc == Uncached(allTexts, cached, 1) IN
       /\ uncachedTexts' = unc
       /\ IF Len(unc) = 0
          THEN /\ jpc' = "done"
               /\ i' = i
               /\ inflight' = {}
               /\ reports' = Append(reports, Progress("completed", allTexts, allTexts))
               /\ slept' = slept
          ELSE LoopTop(unc, 0, 0,
                       Append(reports, Progress("synthesizing", 0, Len(unc))))
  /\ UNCHANGED <<hasController, aborted, isPaused, allTexts, completed, succeeded,
                 failedReq, cancelAt, backendFailed, pauses>>

\* the 500 ms timer of the pause wait fired: the while condition is read again
Wake ==
  /\ jpc = "sleeping"
  /\ Dispatch(uncachedTexts, i, reports)
  /\ UNCHANGED <<hasController, aborted, isPaused, allTexts, uncachedTexts, i, completed,
                 succeeded, failedReq, cancelAt, backendFailed, pauses>>

Succeed_early(c) ==
  /\ jpc = "awaiting"
  /\ c \in inflight
  /\ ~aborted
  /\ completed' = completed + 1
  /\ succeeded' = succeeded \cup {c}
  /\ LoopTop(uncachedTexts, i + BATCH_SIZE, completed + 1,
             Append(reports, Progress("synthesizing", completed + 1, Len(uncachedTexts))))
  /\ UNCHANGED <<hasController, aborted, isPaused, allTexts, uncachedTexts, failedReq,
                 cancelAt, backendFailed, pauses>>

\* synthesizeText(c) resolved: the .then callback, and when it was the last of
\* the batch, the continuation of  await Promise.all(promises).
\* fetch rejects once its signal is aborted, so no request resolves after cancel().
Succeed(c) ==
  /\ jpc = "awaiting"
  /\ c \in inflight
  /\ ~aborted
  /\ completed' = completed + 1
  /\ succeeded' = succeeded \cup {c}
  /\ LET reps == Append(reports, Progress("synthesizing", completed + 1, Len(uncachedTexts)))
     IN IF inflight = {c}
        THEN LoopTop(uncachedTexts, i + BATCH_SIZE, completed + 1, reps)
        ELSE /\ inflight' = inflight \ {c}
             /\ reports' = reps
             /\ jpc' = jpc
             /\ i' = i
             /\ slept' = slept
  /\ UNCHANGED <<hasController, aborted, isPaused, allTexts, uncachedTexts, failedReq,
                 cancelAt, backendFailed, pauses>>

Fail_aborts(c) ==
  /\ jpc = "awaiting"
  /\ c \in inflight
  /\ failedReq' = failedReq \cup {c}
  /\ backendFailed' = (backendFailed \/ ~aborted)
  /\ jpc' = "done"
  /\ inflight' = {}
  /\ reports' = Append(reports, Failure("errorMessage"))
  /\ UNCHANGED <<hasController, aborted, isPaused, allTexts, uncachedTexts, i, completed,
                 succeeded, cancelAt, pauses, slept>>

\* synthesizeText(c) rejected (backend error, or the abort): the .catch callback
Fail(c) ==
  /\ jpc = "awaiting"
  /\ c \in inflight
  /\ failedReq' = failedReq \cup {c}
  /\ backendFailed' = (backendFailed \/ ~aborted)
  /\ IF inflight = {c}
     THEN LoopTop(uncachedTexts, i + BATCH_SIZE, completed, reports)
     ELSE /\ inflight' = inflight \ {c}
          /\ reports' = reports
          /\ jpc' = jpc
          /\ i' = i
          /\ slept' = slept
  /\ UNCHANGED <<hasController, aborted, isPaused, allTexts, uncachedTexts, completed,
                 succeeded, cancelAt, pauses>>

\* pause()
PauseCall(count) ==
  /\ ~isPaused
  /\ isPaused' = TRUE
  /\ pauses' = count
  /\ UNCHANGED <<jpc, hasController, aborted, allTexts, uncachedTexts, i, completed,
                 inflight, succeeded, failedReq, reports, cancelAt,
                 backendFailed, slept>>

Pause == PauseCall(pauses)

\* pause(), called at most MaxPauses times
PauseLimited ==
  /\ pauses < MaxPauses
  /\ PauseCall(pauses + 1)

\* resume()
Resume_noop ==
  /\ isPaused
  /\ UNCHANGED vars

Resume ==
  /\ isPaused
  /\ isPaused' = FALSE
  /\ UNCHANGED <<jpc, hasController, aborted, allTexts, uncachedTexts, i, completed,
                 inflight, succeeded, failedReq, reports, cancelAt,
                 backendFailed, pauses, slept>>

\* cancel()
Cancel ==
  /\ ~aborted \/ isPaused
  /\ aborted' = (aborted \/ hasController)
  /\ isPaused' = FALSE
  /\ cancelAt' = IF hasController /\ ~aborted
                 THEN [pc |-> jpc, sent |-> Cardinality(Dispatched)]
                 ELSE cancelAt
  /\ UNCHANGED <<jpc, hasController, allTexts, uncachedTexts, i, completed, inflight,
                 succeeded, failedReq, reports, backendFailed, pauses, slept>>

\* get isActive
isActive == hasController /\ ~aborted

JobInit ==
  /\ jpc = "idle"
  /\ hasController = FALSE
  /\ aborted = FALSE
  /\ isPaused = FALSE
  /\ allTexts = NotExtracted
  /\ uncachedTexts = <<>>
  /\ i = 0
  /\ completed = 0
  /\ inflight = {}
  /\ succeeded = {}
  /\ failedReq = {}
  /\ reports = <<>>
  /\ cancelAt = [pc |-> "none", sent |-> 0]
  /\ backendFailed = FALSE
  /\ pauses = 0
  /\ slept = FALSE


\* ============================================================ strings and keys
\* A string is the sequence of its characters; the absent (undefined) and the
\* empty string are both <<>>: the routes test them with `!s` and `s ? :`.
Chars == {"a", " ", "\n"}

\* characters matched by \s and stripped by trim()
WhiteSpace == {" ", "\n"}

\* the strings of at most n characters
Texts(n) == UNION {[1..m -> Chars] : m \in 0..n}

RECURSIVE TrimStart(_)
TrimStart(s) ==
  IF s # <<>> /\ Head(s) \in WhiteSpace THEN TrimStart(Tail(s)) ELSE s

RECURSIVE TrimEnd(_)
TrimEnd(s) ==
  IF s # <<>> /\ s[Len(s)] \in WhiteSpace THEN TrimEnd(SubSeq(s, 1, Len(s) - 1)) ELSE s

\* String.prototype.trim
Trim(s) == TrimEnd(TrimStart(s))

\* s.replace(/\s+/g, ' '): every maximal run of whitespace becomes one space
RECURSIVE CollapseSpaces(_)
CollapseSpaces(s) ==
  IF s = <<>> THEN <<>>
  ELSE IF Head(s) \in WhiteSpace THEN <<" ">> \o CollapseSpaces(TrimStart(s))
  ELSE <<Head(s)>> \o CollapseSpaces(Tail(s))

\* crypto.createHash('md5').update(s).digest('hex'): the digest is taken to be
\* free of collisions and is represented by the string it digests
Md5(s) == s

generateCacheKey_untrimmed(text, voice) == Md5(CollapseSpaces(text) \o voice)

\* generateCacheKey of the synthesis route
generateCacheKey(text, voice) == Md5(CollapseSpaces(Trim(text)) \o voice)

\* generateCacheKey of the check route
check_generateCacheKey(text, voice) == Md5(CollapseSpaces(Trim(text)) \o voice)

\* bookKey.split('-')[0]
RECURSIVE SplitHead(_)
SplitHead(s) ==
  IF s = <<>> \/ Head(s) = "-" THEN <<>> ELSE <<Head(s)>> \o SplitHead(Tail(s))

extractBookHash_whole(bookKey) == bookKey

\* extractBookHash of the synthesis route
extractBookHash(bookKey) == SplitHead(bookKey)

\* extractBookHash of the check route
check_extractBookHash(bookKey) == SplitHead(bookKey)

\* extractBookHash of the book-status route
status_extractBookHash(bookKey) == SplitHead(bookKey)

\* ---------------------------------------------------------- derivation of keys
Voices == {<<"v">>, <<"w">>}

NoKeys ==
  /\ keyText = <<>>
  /\ keyVoice = <<>>
  /\ synthKeys = <<>>
  /\ checkKeys = <<>>

KeyInit ==
  /\ keyText \in Texts(MaxLen) \X Texts(MaxLen)
  /\ keyVoice \in Voices
  /\ synthKeys = <<>>
  /\ checkKeys = <<>>

\* the synthesis route derives the keys of the two texts
SynthDerive ==
  /\ synthKeys = <<>>
  /\ synthKeys' = <<generateCacheKey(keyText[1], keyVoice),
                    generateCacheKey(keyText[2], keyVoice)>>
  /\ UNCHANGED <<keyText, keyVoice, checkKeys>>

\* the check route derives the keys of the two texts
CheckDerive ==
  /\ checkKeys = <<>>
  /\ checkKeys' = <<check_generateCacheKey(keyText[1], keyVoice),
                    check_generateCacheKey(keyText[2], keyVoice)>>
  /\ UNCHANGED <<keyText, keyVoice, synthKeys>>

\* ============================================================ the cache store
\* texts that are requested
StoreTexts == {<<"a">>, <<"b">>}

\* the text and voice of the requests that are served concurrently
TheText == <<"a">>

TheVoice == <<"v">>

\* composite book keys "hash-suffix" (and a key without suffix)
BookKeys == {<<"h">>, <<"h", "-", "s">>, <<"h", "-", "t">>, <<"g", "-", "s">>}

\* '_default'
Default == <<"_default">>

\* names of the directories of books under the cache directory
Books == {SplitHead(k) : k \in BookKeys} \cup BookKeys \cup {Default}

\* cache keys of the requested texts
Keys == {generateCacheKey(t, v) : t \in StoreTexts, v \in Voices}

Requests == {"r1", "r2"}

\* audio payloads: what the legacy file holds, what the backend may return
AudioBytes == {"a1", "a2"}

None == "none"

\* a metadata file holding CacheMetadata: useCount, size (here: the payload the
\* record was written for), bookKey and voice
Meta(count, bytes, book, voice) ==
  [kind |-> "json", useCount |-> count, size |-> bytes, bookKey |-> book, voice |-> voice]

\* no metadata file
NoMeta == [kind |-> "none", useCount |-> 0, size |-> None, bookKey |-> <<>>, voice |-> <<>>]

\* a metadata file that does not parse
Corrupt == [kind |-> "corrupt", useCount |-> 0, size |-> None, bookKey |-> <<>>, voice |-> <<>>]

NoEntry == [audio |-> None, meta |-> NoMeta]

\* fs.access / fs.readFile of an audio file resolves
Exists(audio) == audio # None

\* fs.readFile of a metadata file resolves
MetaExists(m) == m.kind # "none"

\* JSON.parse(data) of a metadata file succeeds
Readable(m) == m.kind = "json"

\* path.join(CACHE_DIR, bookKey, voice, `${cacheKey}.mp3`), and the metadata
\* file next to it
getCacheFilePath(bookKey, voice, cacheKey) == <<bookKey, voice, cacheKey>>

Paths == Books \X Voices \X Keys

\* the file of the entry request r is about
FilePath(r) == getCacheFilePath(rbook[r], rvoice[r], rkey[r])

reqParams == <<rkind, rraw, rvoice, rkey, rbook>>

scanVars == <<rfiles, rfound, rall, rcount, rvoices>>

reqVars == <<rpc, rkind, rraw, rvoice, rkey, rbook, rbuf, rmeta, rexists, rmigrated,
             rlegacyOnly, rresp, rcalls, rfiles, rfound, rall, rcount, rvoices>>

\* request r moves to position pos
Goto(r, pos) == rpc' = [rpc EXCEPT ![r] = pos]

\* a handler is entered: its locals
Enter(r, kind, pos, raw, voice, key, book) ==
  /\ rpc[r] = "idle"
  /\ nreq < MaxReq
  /\ nreq' = nreq + 1
  /\ Goto(r, pos)
  /\ rkind' = [rkind EXCEPT ![r] = kind]
  /\ rraw' = [rraw EXCEPT ![r] = raw]
  /\ rvoice' = [rvoice EXCEPT ![r] = voice]
  /\ rkey' = [rkey EXCEPT ![r] = key]
  /\ rbook' = [rbook EXCEPT ![r] = book]
  /\ rbuf' = [rbuf EXCEPT ![r] = None]
  /\ rmeta' = [rmeta EXCEPT ![r] = NoMeta]
  /\ rexists' = [rexists EXCEPT ![r] = "none"]
  /\ rmigrated' = [rmigrated EXCEPT ![r] = FALSE]
  /\ rresp' = [rresp EXCEPT ![r] = "none"]
  /\ rcalls' = [rcalls EXCEPT ![r] = 0]
  /\ rfound' = [rfound EXCEPT ![r] = {}]
  /\ rall' = [rall EXCEPT ![r] = <<>>]
  /\ rcount' = [rcount EXCEPT ![r] = 0]
  /\ rvoices' = [rvoices EXCEPT ![r] = [v \in Voices |-> 0]]

\* no other request is being served
Alone == \A q \in Requests : rpc[q] = "idle"

\* isCached returns `answer` and the handler goes on: the HIT branch starts with
\* updateMetadata, the MISS branch with synthesizeAudio
IsCachedReturns(r, answer) ==
  /\ rexists' = [rexists EXCEPT ![r] = IF answer THEN "true" ELSE "false"]
  /\ Goto(r, IF answer THEN "upd_read" ELSE "synth")

\* POST: the request is read, effectiveBookKey and cacheKey are computed and
\* isCached is entered
StartRequest(r, bookKey, text, voice) ==
  LET effectiveBookKey == IF bookKey # <<>> THEN extractBookHash(bookKey) ELSE Default
      cacheKey == generateCacheKey(text, voice)
  IN /\ Enter(r, "synthesize", "access_nested", bookKey, voice, cacheKey, effectiveBookKey)
     /\ rfiles' = [rfiles EXCEPT ![r] = {}]
     /\ rlegacyOnly' = [rlegacyOnly EXCEPT ![r] =
          /\ ~Exists(nested[getCacheFilePath(effectiveBookKey, voice, cacheKey)].audio)
          /\ Exists(legacy[cacheKey].audio)]
     /\ UNCHANGED <<legacy, nested, legacy0, lastWriter, storedAs, hits>>

\* a request starts while no other request is being served
StartAlone(r, bookKey, text, voice) ==
  /\ Alone
  /\ StartRequest(r, bookKey, text, voice)

\* isCached: await fs.access(filePath)
AccessNested(r) ==
  /\ rpc[r] = "access_nested"
  /\ IF Exists(nested[FilePath(r)].audio)
     THEN IsCachedReturns(r, TRUE)
     ELSE Goto(r, "access_legacy") /\ UNCHANGED rexists
  /\ UNCHANGED <<legacy, nested, rbuf, rmeta, rmigrated, rlegacyOnly, rresp, rcalls,
                 legacy0, lastWriter, storedAs, hits, nreq, reqParams, scanVars>>

\* isCached: await fs.access(legacyPath); found: migrateCacheFile is called and
\* runs up to its first read (ensureCacheDir creates the directory)
AccessLegacy(r) ==
  /\ rpc[r] = "access_legacy"
  /\ IF Exists(legacy[rkey[r]].audio)
     THEN /\ Goto(r, "mig_read_audio")
          /\ rmigrated' = [rmigrated EXCEPT ![r] = TRUE]
          /\ UNCHANGED rexists
     ELSE /\ IsCachedReturns(r, FALSE)
          /\ UNCHANGED rmigrated
  /\ UNCHANGED <<legacy, nested, rbuf, rmeta, rlegacyOnly, rresp, rcalls, legacy0,
                 lastWriter, storedAs, hits, nreq, reqParams, scanVars>>

\* migrateCacheFile: await fs.readFile(legacyAudioPath); ENOENT is rethrown and
\* caught by isCached, which returns false
MigReadAudio(r) ==
  /\ rpc[r] = "mig_read_audio"
  /\ IF Exists(legacy[rkey[r]].audio)
     THEN /\ rbuf' = [rbuf EXCEPT ![r] = legacy[rkey[r]].audio]
          /\ Goto(r, "mig_write_audio")
          /\ UNCHANGED rexists
     ELSE /\ IsCachedReturns(r, FALSE)
          /\ UNCHANGED rbuf
  /\ UNCHANGED <<legacy, nested, rmeta, rmigrated, rlegacyOnly, rresp, rcalls, legacy0,
                 lastWriter, storedAs, hits, nreq, reqParams, scanVars>>

\* migrateCacheFile: await fs.writeFile(newAudioPath, audioBuffer)
MigWriteAudioAs(r, bytes) ==
  /\ rpc[r] = "mig_write_audio"
  /\ nested' = [nested EXCEPT ![FilePath(r)].audio = bytes]
  /\ lastWriter' = [lastWriter EXCEPT ![FilePath(r)] = "migrate"]
  /\ Goto(r, "mig_read_meta")
  /\ UNCHANGED <<legacy, rbuf, rmeta, rexists, rmigrated, rlegacyOnly, rresp, rcalls,
                 legacy0, storedAs, hits, nreq, reqParams, scanVars>>

MigWriteAudio_lost(r) == MigWriteAudioAs(r, None)

MigWriteAudio(r) == MigWriteAudioAs(r, rbuf[r])

\* migrateCacheFile: await fs.readFile(legacyMetaPath), ENOENT swallowed
MigReadMeta(r) ==
  /\ rpc[r] = "mig_read_meta"
  /\ IF MetaExists(legacy[rkey[r]].meta)
     THEN /\ rmeta' = [rmeta EXCEPT ![r] = legacy[rkey[r]].meta]
          /\ Goto(r, "mig_write_meta")
     ELSE /\ Goto(r, "mig_unlink_audio")
          /\ UNCHANGED rmeta
  /\ UNCHANGED <<legacy, nested, rbuf, rexists, rmigrated, rlegacyOnly, rresp, rcalls,
                 legacy0, lastWriter, storedAs, hits, nreq, reqParams, scanVars>>

\* migrateCacheFile: await fs.writeFile(newMetaPath, metaBuffer)
MigWriteMeta(r) ==
  /\ rpc[r] = "mig_write_meta"
  /\ nested' = [nested EXCEPT ![FilePath(r)].meta = rmeta[r]]
  /\ Goto(r, "mig_unlink_audio")
  /\ UNCHANGED <<legacy, rbuf, rmeta, rexists, rmigrated, rlegacyOnly, rresp, rcalls,
                 legacy0, lastWriter, storedAs, hits, nreq, reqParams, scanVars>>

\* migrateCacheFile: await fs.unlink(legacyAudioPath); ENOENT is rethrown and
\* caught by isCached, which returns false
MigUnlinkAudio(r) ==
  /\ rpc[r] = "mig_unlink_audio"
  /\ IF Exists(legacy[rkey[r]].audio)
     THEN /\ legacy' = [legacy EXCEPT ![rkey[r]].audio = None]
          /\ Goto(r, "mig_unlink_meta")
          /\ UNCHANGED rexists
     ELSE /\ IsCachedReturns(r, FALSE)
          /\ UNCHANGED legacy
  /\ UNCHANGED <<nested, rbuf, rmeta, rmigrated, rlegacyOnly, rresp, rcalls, legacy0,
                 lastWriter, storedAs, hits, nreq, reqParams, scanVars>>

\* migrateCacheFile: await fs.unlink(legacyMetaPath), ENOENT swallowed;
\* migrateCacheFile returns and isCached returns true
MigUnlinkMetaAs(r, left) ==
  /\ rpc[r] = "mig_unlink_meta"
  /\ legacy' = [legacy EXCEPT ![rkey[r]].meta = left]
  /\ IsCachedReturns(r, TRUE)
  /\ UNCHANGED <<nested, rbuf, rmeta, rmigrated, rlegacyOnly, rresp, rcalls, legacy0,
                 lastWriter, storedAs, hits, nreq, reqParams, scanVars>>

MigUnlinkMeta_kept(r) == MigUnlinkMetaAs(r, legacy[rkey[r]].meta)

MigUnlinkMeta(r) == MigUnlinkMetaAs(r, NoMeta)

\* updateMetadata: await fs.readFile(metaPath) and JSON.parse; a missing or
\* unparsable file is ignored (`raises`: it is not, and the handler's catch
\* block answers)
UpdReadMetaOr(r, raises) ==
  /\ rpc[r] = "upd_read"
  /\ LET m == nested[FilePath(r)].meta IN
       IF Readable(m)
       THEN /\ rmeta' = [rmeta EXCEPT ![r] = [m EXCEPT !.useCount = m.useCount + 1]]
            /\ Goto(r, "upd_write")
            /\ UNCHANGED rresp
       ELSE /\ Goto(r, IF raises THEN "idle" ELSE "get_audio")
            /\ rresp' = [rresp EXCEPT ![r] = IF raises THEN "ERROR" ELSE @]
            /\ UNCHANGED rmeta
  /\ UNCHANGED <<legacy, nested, rbuf, rexists, rmigrated, rlegacyOnly, rcalls,
                 legacy0, lastWriter, storedAs, hits, nreq, reqParams, scanVars>>

UpdReadMeta_raises(r) == UpdReadMetaOr(r, TRUE)

UpdReadMeta(r) == UpdReadMetaOr(r, FALSE)

\* updateMetadata: await fs.writeFile(metaPath, JSON.stringify(meta))
UpdWriteMeta(r) ==
  /\ rpc[r] = "upd_write"
  /\ nested' = [nested EXCEPT ![FilePath(r)].meta = rmeta[r]]
  /\ Goto(r, "get_audio")
  /\ UNCHANGED <<legacy, rbuf, rmeta, rexists, rmigrated, rlegacyOnly, rresp, rcalls,
                 legacy0, lastWriter, storedAs, hits, nreq, reqParams, scanVars>>

\* getCachedAudio: await fs.readFile(filePath) resolves with `bytes`; the
\* response is a HIT with them (a missing file is an error response)
GetCachedAudioAs(r, bytes) ==
  /\ rpc[r] = "get_audio"
  /\ rbuf' = [rbuf EXCEPT ![r] = bytes]
  /\ rresp' = [rresp EXCEPT ![r] = IF Exists(bytes) THEN "HIT" ELSE "ERROR"]
  /\ hits' = [hits EXCEPT ![FilePath(r)] = IF Exists(bytes) THEN @ + 1 ELSE @]
  /\ Goto(r, "idle")
  /\ UNCHANGED <<legacy, nested, rmeta, rexists, rmigrated, rlegacyOnly, rcalls, legacy0,
                 lastWriter, storedAs, nreq, reqParams, scanVars>>

GetCachedAudio_fixed(r) == GetCachedAudioAs(r, "a1")

GetCachedAudio(r) == GetCachedAudioAs(r, nested[FilePath(r)].audio)

\* synthesizeAudio called the backend, which answered with `bytes`; cacheAudio
\* is entered
SynthOk(r, bytes) ==
  /\ rpc[r] = "synth"
  /\ rcalls' = [rcalls EXCEPT ![r] = @ + 1]
  /\ rbuf' = [rbuf EXCEPT ![r] = bytes]
  /\ Goto(r, "cache_write_audio")
  /\ UNCHANGED <<legacy, nested, rmeta, rexists, rmigrated, rlegacyOnly, rresp,
                 legacy0, lastWriter, storedAs, hits, nreq, reqParams, scanVars>>

\* a failed synthesis that leaves an empty audio file behind
SynthFails_writes(r) ==
  /\ rpc[r] = "synth"
  /\ rcalls' = [rcalls EXCEPT ![r] = @ + 1]
  /\ rresp' = [rresp EXCEPT ![r] = "ERROR"]
  /\ nested' = [nested EXCEPT ![FilePath(r)].audio = "a1"]
  /\ Goto(r, "idle")
  /\ UNCHANGED <<legacy, rbuf, rmeta, rexists, rmigrated, rlegacyOnly,
                 legacy0, lastWriter, storedAs, hits, nreq, reqParams, scanVars>>

\* synthesizeAudio called the backend and rejected: the error response of the
\* catch block
SynthFails(r) ==
  /\ rpc[r] = "synth"
  /\ rcalls' = [rcalls EXCEPT ![r] = @ + 1]
  /\ rresp' = [rresp EXCEPT ![r] = "ERROR"]
  /\ Goto(r, "idle")
  /\ UNCHANGED <<legacy, nested, rbuf, rmeta, rexists, rmigrated, rlegacyOnly,
                 legacy0, lastWriter, storedAs, hits, nreq, reqParams, scanVars>>

\* cacheAudio: await fs.writeFile(filePath, audioBuffer)
CacheWriteAudioAs(r, bytes) ==
  /\ rpc[r] = "cache_write_audio"
  /\ nested' = [nested EXCEPT ![FilePath(r)].audio = bytes]
  /\ lastWriter' = [lastWriter EXCEPT ![FilePath(r)] = "cacheAudio"]
  /\ storedAs' = [storedAs EXCEPT ![FilePath(r)] = rraw[r]]
  /\ Goto(r, "cache_write_meta")
  /\ UNCHANGED <<legacy, rbuf, rmeta, rexists, rmigrated, rlegacyOnly, rresp, rcalls,
                 legacy0, hits, nreq, reqParams, scanVars>>

CacheWriteAudio_dropped(r) == CacheWriteAudioAs(r, None)

CacheWriteAudio(r) == CacheWriteAudioAs(r, rbuf[r])

\* cacheAudio: await fs.writeFile(metaPath, ...) with useCount 1; the response
\* is a MISS with the synthesized bytes
CacheWriteMeta(r) ==
  /\ rpc[r] = "cache_write_meta"
  /\ nested' = [nested EXCEPT ![FilePath(r)].meta = Meta(1, rbuf[r], rbook[r], rvoice[r])]
  /\ hits' = [hits EXCEPT ![FilePath(r)] = 0]
  /\ rresp' = [rresp EXCEPT ![r] = "MISS"]
  /\ Goto(r, "idle")
  /\ UNCHANGED <<legacy, rbuf, rmeta, rexists, rmigrated, rlegacyOnly, rcalls, legacy0,
                 lastWriter, storedAs, nreq, reqParams, scanVars>>

\* ------------------------------------------------------------ the check route
\* These handlers only read the directory or are served alone: the file system
\* calls of one iteration of their loops are taken as one step.

\* the .mp3 files of the flat layout: files.filter((f) => f.endsWith('.mp3'))
AudioFiles == {k \in Keys : Exists(legacy[k].audio)}

\* a handler without a cache key of its own is entered
EnterScan(r, kind, pos, bookKey, voice, book, files) ==
  /\ Alone
  /\ Enter(r, kind, pos, bookKey, voice, <<>>, book)
  /\ rfiles' = [rfiles EXCEPT ![r] = files]
  /\ rlegacyOnly' = [rlegacyOnly EXCEPT ![r] = FALSE]
  /\ UNCHANGED <<legacy, nested, legacy0, lastWriter, storedAs, hits>>

\* POST of the check route: effectiveBookKey is computed and isCached is
\* called for every text
StartCheck(r, bookKey, voice, texts) ==
  EnterScan(r, "check", "check_texts", bookKey, voice,
            IF bookKey # <<>> THEN check_extractBookHash(bookKey) ELSE <<>>,
            {check_generateCacheKey(t, voice) : t \in texts})

\* isCached of the check route: fs.access of the nested file if a book is
\* named, then of the legacy file
check_isCached(bookKey, voice, cacheKey) ==
  \/ /\ bookKey # <<>>
     /\ Exists(nested[getCacheFilePath(bookKey, voice, cacheKey)].audio)
  \/ Exists(legacy[cacheKey].audio)

\* one text of the request is looked up: its CheckResult
CheckText(r, k) ==
  /\ rpc[r] = "check_texts"
  /\ k \in rfiles[r]
  /\ rfiles' = [rfiles EXCEPT ![r] = @ \ {k}]
  /\ rall' = [rall EXCEPT ![r] =
       Append(@, [cacheKey |-> k, cached |-> check_isCached(rbook[r], rvoice[r], k)])]
  /\ UNCHANGED <<legacy, nested, rpc, rbuf, rmeta, rexists, rmigrated, rlegacyOnly, rresp,
                 rcalls, rfound, rcount, rvoices, legacy0, lastWriter, storedAs, hits, nreq,
                 reqParams>>

\* every text is looked up: the response with the results and cachedCount
CheckRespond(r) ==
  /\ rpc[r] = "check_texts"
  /\ rfiles[r] = {}
  /\ rcount' = [rcount EXCEPT ![r] =
       Cardinality({n \in 1..Len(rall[r]) : rall[r][n].cached})]
  /\ rresp' = [rresp EXCEPT ![r] = "OK"]
  /\ Goto(r, "idle")
  /\ UNCHANGED <<legacy, nested, rbuf, rmeta, rexists, rmigrated, rlegacyOnly, rcalls,
                 rfiles, rfound, rall, rvoices, legacy0, lastWriter, storedAs, hits, nreq,
                 reqParams>>

\* ------------------------------------------------------ the book-status route
\* GET of the book-status route with a bookKey
StartStatus(r, bookKey, voice) ==
  EnterScan(r, "book-status", "status_scan", bookKey, voice,
            status_extractBookHash(bookKey), {})

\* mp3Files of the directory of a book and voice
Mp3Files(book, voice) ==
  {k \in Keys : Exists(nested[getCacheFilePath(book, voice, k)].audio)}

\* the directory of the book, and of the voice if one is given, is read: the
\* response with cachedCount, and with the files of every voice if none is given
StatusScan(r) ==
  /\ rpc[r] = "status_scan"
  /\ IF rvoice[r] # <<>>
     THEN /\ rcount' = [rcount EXCEPT ![r] = Cardinality(Mp3Files(rbook[r], rvoice[r]))]
          /\ UNCHANGED rvoices
     ELSE /\ rvoices' = [rvoices EXCEPT ![r] =
               [v \in Voices |-> Cardinality(Mp3Files(rbook[r], v))]]
          /\ rcount' = [rcount EXCEPT ![r] =
               Cardinality({p \in Paths : p[1] = rbook[r] /\ Exists(nested[p].audio)})]
  /\ rresp' = [rresp EXCEPT ![r] = "OK"]
  /\ Goto(r, "idle")
  /\ UNCHANGED <<legacy, nested, rbuf, rmeta, rexists, rmigrated, rlegacyOnly, rcalls,
                 rfiles, rfound, rall, legacy0, lastWriter, storedAs, hits, nreq, reqParams>>

\* ------------------------------------------------------------ the stats route
\* GET of the stats route
StartStats(r) ==
  EnterScan(r, "stats", "stats_readdir", <<>>, <<>>, <<>>, {})

\* await fs.readdir(CACHE_DIR): the audio files of the flat layout;
\* summary.fileCount is their number
StatsReaddir(r) ==
  /\ rpc[r] = "stats_readdir"
  /\ rfiles' = [rfiles EXCEPT ![r] = AudioFiles]
  /\ rcount' = [rcount EXCEPT ![r] = Cardinality(AudioFiles)]
  /\ Goto(r, "stats_files")
  /\ UNCHANGED <<legacy, nested, rbuf, rmeta, rexists, rmigrated, rlegacyOnly, rresp,
                 rcalls, rfound, rall, rvoices, legacy0, lastWriter, storedAs, hits, nreq,
                 reqParams>>

\* one audio file: fs.stat, then its metadata is read, parsed and collected
StatsFile(r, k) ==
  /\ rpc[r] = "stats_files"
  /\ k \in rfiles[r]
  /\ rfiles' = [rfiles EXCEPT ![r] = @ \ {k}]
  /\ rall' = [rall EXCEPT ![r] =
       IF Exists(legacy[k].audio) /\ Readable(legacy[k].meta)
       THEN Append(@, [cacheKey |-> k, meta |-> legacy[k].meta])
       ELSE @]
  /\ UNCHANGED <<legacy, nested, rpc, rbuf, rmeta, rexists, rmigrated, rlegacyOnly, rresp,
                 rcalls, rfound, rcount, rvoices, legacy0, lastWriter, storedAs, hits, nreq,
                 reqParams>>

\* voiceStats[voice].count of the collected metadata
VoiceCount(all, voice) ==
  Cardinality({n \in 1..Len(all) : all[n].meta.voice = voice})

\* the metadata is grouped: the response with the per-voice breakdown
StatsRespond(r) ==
  /\ rpc[r] = "stats_files"
  /\ rfiles[r] = {}
  /\ rvoices' = [rvoices EXCEPT ![r] = [v \in Voices |-> VoiceCount(rall[r], v)]]
  /\ rresp' = [rresp EXCEPT ![r] = "OK"]
  /\ Goto(r, "idle")
  /\ UNCHANGED <<legacy, nested, rbuf, rmeta, rexists, rmigrated, rlegacyOnly, rcalls,
                 rfiles, rfound, rall, rcount, legacy0, lastWriter, storedAs, hits, nreq,
                 reqParams>>

\* POST of the stats route: clear the cache, all of it or the entries of a
\* book and / or voice
StartEvict(r, bookKey, voice) ==
  EnterScan(r, "evict", "evict_readdir", bookKey, voice, <<>>, {})

\* await fs.readdir(CACHE_DIR): the audio files of the flat layout
EvictReaddir(r) ==
  /\ rpc[r] = "evict_readdir"
  /\ rfiles' = [rfiles EXCEPT ![r] = AudioFiles]
  /\ Goto(r, "evict_files")
  /\ UNCHANGED <<legacy, nested, rbuf, rmeta, rexists, rmigrated, rlegacyOnly, rresp,
                 rcalls, rfound, rall, rcount, rvoices, legacy0, lastWriter, storedAs, hits,
                 nreq, reqParams>>

shouldDelete_always(meta, bookKey, voice) == TRUE

\* shouldDelete of an audio file whose metadata file holds `meta`
shouldDelete(meta, bookKey, voice) ==
  IF bookKey = <<>> /\ voice = <<>> THEN TRUE
  ELSE IF Readable(meta)
       THEN IF bookKey # <<>> /\ meta.bookKey = bookKey
            THEN voice = <<>> \/ meta.voice = voice
            ELSE voice # <<>> /\ bookKey = <<>> /\ meta.voice = voice
       ELSE bookKey = <<>> /\ voice = <<>>

\* one audio file: a file to delete is stat'ed and unlinked, deletedCount is
\* increased and the metadata file is unlinked
EvictFile(r, k) ==
  /\ rpc[r] = "evict_files"
  /\ k \in rfiles[r]
  /\ rfiles' = [rfiles EXCEPT ![r] = @ \ {k}]
  /\ IF shouldDelete(legacy[k].meta, rraw[r], rvoice[r]) /\ Exists(legacy[k].audio)
     THEN /\ legacy' = [legacy EXCEPT ![k] = NoEntry]
          /\ rfound' = [rfound EXCEPT ![r] = @ \cup {k}]
          /\ rcount' = [rcount EXCEPT ![r] = @ + 1]
     ELSE UNCHANGED <<legacy, rfound, rcount>>
  /\ UNCHANGED <<nested, rpc, rbuf, rmeta, rexists, rmigrated, rlegacyOnly, rresp, rcalls,
                 rall, rvoices, legacy0, lastWriter, storedAs, hits, nreq, reqParams>>

\* every file is handled: the response with deletedCount
EvictRespond(r) ==
  /\ rpc[r] = "evict_files"
  /\ rfiles[r] = {}
  /\ rresp' = [rresp EXCEPT ![r] = "OK"]
  /\ Goto(r, "idle")
  /\ UNCHANGED <<legacy, nested, rbuf, rmeta, rexists, rmigrated, rlegacyOnly, rcalls,
                 rfiles, rfound, rall, rcount, rvoices, legacy0, lastWriter, storedAs, hits,
                 nreq, reqParams>>

\* ------------------------------------------------ the lists of the statistics
\* entries of topUsed and of recent: .slice(0, 10)
LIST_SIZE == 10

\* the (useCount, lastUsed) of the metadata the lists are computed for, lastUsed
\* as the time its date string stands for
UseAndDate == {<<1, 2>>, <<2, 1>>}

\* allMetadata: what the loop over the audio files collected, in the order of
\* the enumeration; every entry has its own text
Collected ==
  UNION {[1..n -> {[text |-> 0, useCount |-> u[1], lastUsed |-> u[2]] : u \in UseAndDate}]
           : n \in 0..MaxEntries}

\* (a, b) => b.useCount - a.useCount
byUseCount_ascending(a, b) == a.useCount - b.useCount

byUseCount(a, b) == b.useCount - a.useCount

\* (a, b) => new Date(b.lastUsed).getTime() - new Date(a.lastUsed).getTime()
byLastUsed(a, b) == b.lastUsed - a.lastUsed

\* [...all].sort(compare): Array.prototype.sort is stable, so the entry at j
\* comes after the entries that compare before it and after the entries at
\* lower indices that compare equal to it
Sorted(all, compare) ==
  LET before(j) == Cardinality({k \in 1..Len(all) :
                     \/ compare[all[k], all[j]] < 0
                     \/ compare[all[k], all[j]] = 0 /\ k < j})
  IN [p \in 1..Len(all) |-> all[CHOOSE j \in 1..Len(all) : before(j) = p - 1]]

\* .slice(0, 10)
Slice(list) == SubSeq(list, 1, Min(LIST_SIZE, Len(list)))

\* GET of the stats route from the sort on: topUsed and recent of the response
StatsLists ==
  /\ spc = "collected"
  /\ spc' = "responded"
  /\ LET entries == {allMetadata[n] : n \in 1..Len(allMetadata)} IN
       /\ topUsed' = Slice(Sorted(allMetadata, [a, b \in entries |-> byUseCount(a, b)]))
       /\ recent' = Slice(Sorted(allMetadata, [a, b \in entries |-> byLastUsed(a, b)]))
  /\ UNCHANGED allMetadata

\* no statistics are asked for
NoStats ==
  /\ spc = "idle"
  /\ allMetadata = <<>>
  /\ topUsed = <<>>
  /\ recent = <<>>

\* the metadata of up to MaxEntries entries has been collected
StatsInit ==
  /\ spc = "collected"
  /\ allMetadata \in {[n \in 1..Len(all) |-> [all[n] EXCEPT !.text = n]] : all \in Collected}
  /\ topUsed = <<>>
  /\ recent = <<>>

\* ============================================================ responses of the routes
\* What the POST handlers of the synthesis, check and load-model routes answer,
\* as a function of the request and of what the synthesis backend does.

\* a request: its route, whether request.json() resolves, whether the body holds
\* the fields the route asks for, whether the X-VieNeu-API-Key header is there,
\* whether the entry is cached, what the fetch of the backend does, and whether
\* a file system call of the handler fails
HttpRequests ==
  [route : {"synthesize", "check", "load-model"},
   json : BOOLEAN, fields : BOOLEAN, apiKey : BOOLEAN, cached : BOOLEAN,
   backend : {"ok", "unreachable", "404", "500"}, fsFails : BOOLEAN]

\* NextResponse.json(body, { status }): the status and which of `error` and
\* `details` the body holds
Response(status, error, details) ==
  [status |-> status, error |-> error, details |-> details]

\* new NextResponse(audioBuffer) / NextResponse.json(data)
Ok == Response(200, FALSE, FALSE)

\* the catch block of the synthesis route: 503 when the message of the error
\* includes 'fetch failed', 500 otherwise
synthesize_catch(fetchFailed) ==
  IF fetchFailed THEN Response(503, TRUE, TRUE) ELSE Response(500, TRUE, TRUE)

\* POST of the synthesis route
synthesize_POST(req) ==
  IF ~req.json THEN synthesize_catch(FALSE)
  ELSE IF ~req.fields THEN Response(400, TRUE, FALSE)
  ELSE IF req.cached THEN (IF req.fsFails THEN synthesize_catch(FALSE) ELSE Ok)
  ELSE IF req.backend = "unreachable" THEN synthesize_catch(TRUE)
  ELSE IF req.backend # "ok" THEN synthesize_catch(FALSE)
  ELSE IF req.fsFails THEN synthesize_catch(FALSE)
  ELSE Ok

\* POST of the check route; its isCached catches what fs.access throws
check_POST(req) ==
  IF ~req.json THEN Response(500, TRUE, TRUE)
  ELSE IF ~req.fields THEN Response(400, TRUE, FALSE)
  ELSE Ok

\* the status of a backend response that is not ok
BackendStatus(backend) == IF backend = "404" THEN 404 ELSE 500

\* POST of the load-model route
loadModel_POST(req) ==
  IF ~req.apiKey THEN Response(401, TRUE, TRUE)
  ELSE IF ~req.json THEN Response(500, TRUE, TRUE)
  ELSE IF req.backend = "unreachable" THEN Response(500, TRUE, TRUE)
  ELSE IF req.backend # "ok" THEN Response(BackendStatus(req.backend), TRUE, TRUE)
  ELSE Ok

\* a handler answers the request
Responds(route, response) ==
  /\ hpc = "received"
  /\ hreq.route = route
  /\ hpc' = "responded"
  /\ hres' = response
  /\ UNCHANGED hreq

\* no request is made
NoHttp ==
  /\ hpc = "idle"
  /\ hreq = <<>>
  /\ hres = <<>>

\* a request has come in
HttpInit ==
  /\ hpc = "received"
  /\ hreq \in HttpRequests
  /\ hres = <<>>

\* ============================================================ text extraction
\* extractBookText on a paginated view, followed by the cache check and the
\* synthesis requests of preCacheBook for the extracted chunks, against a
\* store that is empty when the job starts.

\* the texts of the marks of a page
MarkTexts ==
  {<<>>, <<" ">>, <<"a">>, <<" ", "a">>, <<"a", " ", "a">>, <<"a", " ", " ", "a">>}

\* the books: every page yields one mark; a book without sections has no page
Books0 == UNION {[1..n -> MarkTexts] : n \in 0..MaxPages}

\* let currentLocation: string | null = null
NoLocation == 0

\* the elements of a sequence
Range(s) == {s[n] : n \in 1..Len(s)}

\* for (const mark of marks): the trimmed text of the mark is pushed unless
\* it is empty or allTexts.includes(trimmedText)
AddMark(all, text) ==
  LET trimmedText == Trim(text)
  IN IF trimmedText # <<>> /\ trimmedText \notin Range(all)
     THEN Append(all, trimmedText)
     ELSE all

\* the loop is left: the saved position is restored if there is one
AfterLoop ==
  xpc' = IF currentLocation # NoLocation THEN "restore" ELSE "returned"

\* while (pageCount < MAX_PAGES) { pageCount++; ... await view.next()
LoopHead ==
  IF pageCount < MAX_PAGES
  THEN pageCount' = pageCount + 1 /\ xpc' = "next"
  ELSE pageCount' = pageCount /\ AfterLoop

\* extractBookText is called; view.tts exists or view.initTTS resolves (it
\* rejects: 'Cannot initialize TTS for text extraction' is thrown)
XStart(ok) ==
  /\ xpc = "idle"
  /\ xpc' = IF ok THEN "getCFI" ELSE "thrown"
  /\ UNCHANGED <<pages, location, location0, currentLocation, pageCount, extracted,
                 stored, totalCount, requests>>

\* await view.getCFI() resolves or rejects (then the position is not saved);
\* a book without sections: 'No sections found in book' is thrown
XGetCFI(ok) ==
  /\ xpc = "getCFI"
  /\ currentLocation' = IF ok THEN location ELSE NoLocation
  /\ xpc' = IF Len(pages) = 0 THEN "thrown" ELSE "goTo"
  /\ UNCHANGED <<pages, location, location0, pageCount, extracted, stored, totalCount,
                 requests>>

\* await view.goTo(0): the view shows the first page; a rejection is rethrown
XGoToStart(ok) ==
  /\ xpc = "goTo"
  /\ location' = IF ok THEN 1 ELSE location
  /\ xpc' = IF ok THEN "first" ELSE "thrown"
  /\ UNCHANGED <<pages, location0, currentLocation, pageCount, extracted, stored,
                 totalCount, requests>>

\* the 800 ms timer fired: the marks of the first page are added (or
\* view.tts.start() throws, which is caught) and the loop is entered
XFirstPage(ok) ==
  /\ xpc = "first"
  /\ extracted' = IF ok THEN AddMark(extracted, pages[location]) ELSE extracted
  /\ LoopHead
  /\ UNCHANGED <<pages, location, location0, currentLocation, stored, totalCount,
                 requests>>

\* await view.next(): the next page is shown; at the end of the book, or when
\* next() rejects, the loop is left
XNext(ok) ==
  /\ xpc = "next"
  /\ IF ok /\ location < Len(pages)
     THEN location' = location + 1 /\ xpc' = "page"
     ELSE location' = location /\ AfterLoop
  /\ UNCHANGED <<pages, location0, currentLocation, pageCount, extracted, stored,
                 totalCount, requests>>

\* the 400 ms timer fired: the marks of the page are added and the loop goes
\* on, or view.tts.start() throws and the loop is left
XPage(ok) ==
  /\ xpc = "page"
  /\ IF ok
     THEN extracted' = AddMark(extracted, pages[location]) /\ LoopHead
     ELSE extracted' = extracted /\ pageCount' = pageCount /\ AfterLoop
  /\ UNCHANGED <<pages, location, location0, currentLocation, stored, totalCount,
                 requests>>

\* await view.goTo(currentLocation): the saved position is shown again; a
\* rejection is logged; allTexts is returned
XRestore(ok) ==
  /\ xpc = "restore"
  /\ location' = IF ok THEN currentLocation ELSE location
  /\ xpc' = "returned"
  /\ UNCHANGED <<pages, location0, currentLocation, pageCount, extracted, stored,
                 totalCount, requests>>

\* results of the check route for the texts: one result per text, cached if
\* the key of the text is in the store
CheckResults(texts, voice) ==
  [n \in 1..Len(texts) |->
     [text |-> texts[n], cached |-> check_generateCacheKey(texts[n], voice) \in stored]]

\* checkCachedTexts(allTexts, voice, bookKey) resolves: totalCount is
\* results.length
XCheck ==
  /\ xpc = "returned"
  /\ extracted # <<>>
  /\ totalCount' = Len(CheckResults(extracted, TheVoice))
  /\ xpc' = "checked"
  /\ UNCHANGED <<pages, location, location0, currentLocation, pageCount, extracted,
                 stored, requests>>

\* the batch loop, every request succeeding: one synthesizeText call for each
\* result that is not cached, and the store holds the keys of their texts
XSynthesize ==
  /\ xpc = "checked"
  /\ LET results == CheckResults(extracted, TheVoice)
         uncachedTexts_ == {n \in 1..Len(results) : ~results[n].cached}
     IN /\ requests' = Cardinality(uncachedTexts_)
        /\ stored' = stored \cup {generateCacheKey(results[n].text, TheVoice) : n \in uncachedTexts_}
  /\ xpc' = "synthesized"
  /\ UNCHANGED <<pages, location, location0, currentLocation, pageCount, extracted,
                 totalCount>>

\* no extraction is in progress
NoView ==
  /\ xpc = "none"
  /\ pages = <<>>
  /\ location = 0
  /\ location0 = 0
  /\ currentLocation = NoLocation
  /\ pageCount = 0
  /\ extracted = <<>>
  /\ stored = {}
  /\ totalCount = 0
  /\ requests = 0

\* a book is open at one of its pages (a book without pages: at none) and the
\* store is empty
ViewInit ==
  /\ xpc = "idle"
  /\ pages \in Books0
  /\ location \in (IF Len(pages) = 0 THEN {0} ELSE 1..Len(pages))
  /\ location0 = location
  /\ currentLocation = NoLocation
  /\ pageCount = 0
  /\ extracted = <<>>
  /\ stored = {}
  /\ totalCount = 0
  /\ requests = 0

\* ============================================================ the dialog
\* PreCacheDialog of one book, with its own PreCacheService, and the entry of
\* the book in activePreCaches of usePreCacheStore.

\* an entry of activePreCaches that is absent
Absent == "none"

\* useState(() => new PreCacheService()): the instance of the mounted dialog
\* is the one whose preCacheBook runs the job of the book (or will, when Start
\* is pressed), or one made by a later mount
OfJob == "job"

Fresh == "fresh"

TerminalStates == {"completed", "failed", "cancelled"}

\* the reports made by the step
NewReports == SubSeq(reports', Len(reports) + 1, Len(reports'))

\* onProgress of handleStart, for every report of the step: setProgress(p) and
\* setPreCacheProgress(bookKey, p)
onProgress ==
  LET states == [n \in 1..Len(NewReports) |-> NewReports[n].state]
  IN /\ progress' = IF states = <<>> \/ ~dialogOpen \/ preCacheService # OfJob
                      THEN progress ELSE Last(states)
     /\ activePreCaches' = IF states = <<>> THEN activePreCaches ELSE Last(states)
     /\ mirrored' = mirrored \o states

\* a step of the job started by the dialog
ReportsMirrored ==
  /\ onProgress
  /\ UNCHANGED <<isStarted, dialogOpen, removeTimer, preCacheService>>

\* a button sets the state of the dialog's progress and mirrors it:
\* setProgress(newProgress); setPreCacheProgress(bookKey, newProgress)
SetState(state) ==
  /\ progress' = state
  /\ activePreCaches' = state
  /\ mirrored' = Append(mirrored, state)

\* the Start button, shown while !isStarted: preCacheBook is called
handleStart ==
  /\ dialogOpen
  /\ ~isStarted
  /\ isStarted' = TRUE
  /\ Start
  /\ onProgress
  /\ UNCHANGED <<dialogOpen, removeTimer, preCacheService>>

\* the Pause button: shown while the job is started and the progress is not
\* terminal and not 'paused', disabled while extracting or checking
handlePause ==
  /\ dialogOpen
  /\ isStarted
  /\ progress \notin TerminalStates \cup {"paused", "extracting", "checking"}
  /\ IF isPaused \/ preCacheService # OfJob THEN UNCHANGED jobVars ELSE PauseLimited
  /\ SetState("paused")
  /\ UNCHANGED <<isStarted, dialogOpen, removeTimer, preCacheService>>

\* the Resume button, shown while the progress is 'paused'
handleResume ==
  /\ dialogOpen
  /\ isStarted
  /\ progress = "paused"
  /\ IF isPaused /\ preCacheService = OfJob THEN Resume ELSE UNCHANGED jobVars
  /\ SetState("synthesizing")
  /\ UNCHANGED <<isStarted, dialogOpen, removeTimer, preCacheService>>

\* the Cancel button, shown while the job is started and the progress is not
\* terminal; the entry is removed and the dialog closed 1000 ms later
handleCancel ==
  /\ dialogOpen
  /\ isStarted
  /\ progress \notin TerminalStates
  /\ IF (~aborted \/ isPaused) /\ preCacheService = OfJob THEN Cancel ELSE UNCHANGED jobVars
  /\ SetState("cancelled")
  /\ removeTimer' = removeTimer + 1
  /\ UNCHANGED <<isStarted, dialogOpen, preCacheService>>

\* the timer of handleCancel fires: removePreCacheProgress(bookKey); onClose()
RemoveTimerFires ==
  /\ removeTimer > 0
  /\ removeTimer' = removeTimer - 1
  /\ activePreCaches' = Absent
  /\ dialogOpen' = FALSE
  /\ UNCHANGED <<progress, isStarted, mirrored, preCacheService>>
  /\ UNCHANGED jobVars

\* handleClose, confirmed when asked: the entry of a finished job is removed;
\* onClose() unmounts the dialog
handleClose ==
  /\ dialogOpen
  /\ activePreCaches' = IF progress \in TerminalStates THEN Absent ELSE activePreCaches
  /\ dialogOpen' = FALSE
  /\ UNCHANGED <<progress, isStarted, mirrored, removeTimer, preCacheService>>
  /\ UNCHANGED jobVars

\* setOpenDialog(bookKey): PreCacheDialogManager mounts a new PreCacheDialog,
\* whose state is initialised from the entry of the book
Reopen ==
  /\ ~dialogOpen
  /\ dialogOpen' = TRUE
  /\ preCacheService' = IF jpc = "idle" THEN OfJob ELSE Fresh
  /\ progress' = IF activePreCaches # Absent THEN activePreCaches ELSE "idle"
  /\ isStarted' = (activePreCaches # Absent)
  /\ UNCHANGED <<activePreCaches, mirrored, removeTimer>>
  /\ UNCHANGED jobVars

\* the 200 ms interval of the dialog: the entry of the book is copied to the
\* dialog's progress
Sync ==
  /\ dialogOpen
  /\ activePreCaches # Absent
  /\ progress' = activePreCaches
  /\ isStarted' = TRUE
  /\ UNCHANGED <<activePreCaches, mirrored, dialogOpen, removeTimer, preCacheService>>
  /\ UNCHANGED jobVars

\* no dialog
NoDialog ==
  /\ progress = "none"
  /\ isStarted = FALSE
  /\ activePreCaches = Absent
  /\ mirrored = <<>>
  /\ dialogOpen = FALSE
  /\ removeTimer = 0
  /\ preCacheService = OfJob

\* the dialog is opened for a book without an entry in activePreCaches
DialogInit ==
  /\ progress = "idle"
  /\ isStarted = FALSE
  /\ activePreCaches = Absent
  /\ mirrored = <<>>
  /\ dialogOpen = TRUE
  /\ removeTimer = 0
  /\ preCacheService = OfJob

\* ------------------------------------------------------------ initial states
\* entries of the flat layout: absent, or an audio file with or without a
\* (possibly unparsable) metadata file, written for a book of `books`
LegacyEntries(voice, books) ==
  {NoEntry}
    \cup {[audio |-> "a1", meta |-> m] :
            m \in {NoMeta, Corrupt} \cup {Meta(1, "a1", b, voice) : b \in books}}

\* the flat layouts that hold entries for the texts and voices of `pairs` only
FlatDirs(pairs, books) ==
  {f \in [Keys -> UNION {LegacyEntries(v, books) : v \in Voices}] :
     \A t \in StoreTexts, v \in Voices :
       f[generateCacheKey(t, v)] \in
         (IF <<t, v>> \in pairs THEN LegacyEntries(v, books) ELSE {NoEntry})}

\* no request is being served and the book / voice directories are empty
RequestsIdle ==
  /\ legacy0 = legacy
  /\ nested = [p \in Paths |-> NoEntry]
  /\ rpc = [r \in Requests |-> "idle"]
  /\ rkind = [r \in Requests |-> "synthesize"]
  /\ rraw = [r \in Requests |-> <<"h">>]
  /\ rvoice = [r \in Requests |-> TheVoice]
  /\ rkey = [r \in Requests |-> generateCacheKey(TheText, TheVoice)]
  /\ rbook = [r \in Requests |-> <<"h">>]
  /\ rbuf = [r \in Requests |-> None]
  /\ rmeta = [r \in Requests |-> NoMeta]
  /\ rexists = [r \in Requests |-> "none"]
  /\ rmigrated = [r \in Requests |-> FALSE]
  /\ rlegacyOnly = [r \in Requests |-> FALSE]
  /\ rresp = [r \in Requests |-> "none"]
  /\ rcalls = [r \in Requests |-> 0]
  /\ rfiles = [r \in Requests |-> {}]
  /\ rfound = [r \in Requests |-> {}]
  /\ rall = [r \in Requests |-> <<>>]
  /\ rcount = [r \in Requests |-> 0]
  /\ rvoices = [r \in Requests |-> [v \in Voices |-> 0]]
  /\ lastWriter = [p \in Paths |-> "none"]
  /\ storedAs = [p \in Paths |-> <<>>]
  /\ hits = [p \in Paths |-> 0]
  /\ nreq = 0

\* the cache directory before any request: empty, or holding the one key in
\* the legacy flat layout
StoreInit ==
  /\ legacy \in FlatDirs({<<TheText, TheVoice>>}, {<<>>})
  /\ RequestsIdle

\* the cache directory before any request: the flat layout holds up to two
\* entries, of one text in two voices
ApiInit ==
  /\ legacy \in FlatDirs({<<TheText, v>> : v \in Voices}, {<<>>, <<"h">>, <<"g">>})
  /\ RequestsIdle

\* ============================================================ properties of the job
\* the job has made its terminal report
Terminal == jpc = "done"

\* cancel() was called after the start and before the terminal report
CancelledInRun == cancelAt.pc \in {"extracting", "checking", "sleeping", "awaiting"}

\* C1: at every moment of a run of preCacheBook at most BATCH_SIZE (5) calls of
\* synthesizeText are dispatched and not yet settled, whatever the number of
\* uncached chunks and whichever requests succeed or fail.
C1_InFlightBounded == Cardinality(inflight) <= BATCH_SIZE

\* a full batch is in flight while more uncached chunks wait for the next batch
C1_Witness ==
  /\ Cardinality(inflight) = BATCH_SIZE
  /\ Len(uncachedTexts) > BATCH_SIZE

\* C2: once cancel() has been called during a running job, no further call of
\* synthesizeText is made: the calls made stay those made when cancel() arrived,
\* also when cancel() arrived during the pause wait.
C2_NoDispatchAfterCancel ==
  CancelledInRun => Cardinality(Dispatched) = cancelAt.sent

\* C3: a job that was cancelled before its terminal report, and whose extraction
\* and cache check did not fail, reports 'cancelled' as its terminal state.
C3_CancelReportsCancelled ==
  (Terminal /\ CancelledInRun /\ Last(reports).state # "failed")
    => Last(reports).state = "cancelled"

\* C4: when cancel() arrives while a batch is in flight, with a later batch
\* still to come and no request refused by the backend, the batch in flight
\* completes: the terminal report is 'cancelled' with current equal to the
\* number of chunks dispatched up to and including that batch, all of them
\* synthesized, and no chunk of a later batch is dispatched.
C4_CancelLetsBatchComplete ==
  (/\ Terminal
   /\ cancelAt.pc = "awaiting"
   /\ cancelAt.sent < Len(uncachedTexts)
   /\ ~backendFailed)
    => /\ Last(reports).state = "cancelled"
       /\ Last(reports).current = cancelAt.sent
       /\ succeeded = Dispatched
       /\ Cardinality(Dispatched) = cancelAt.sent

\* C5: a step taken while the pause flag is set makes no call of synthesizeText:
\* the requests in flight are those dispatched before the flag was observed.
C5_PausedDispatchesNothing ==
  [][isPaused => Dispatched' = Dispatched]_vars

\* the job waits in the pause loop at the boundary before its second batch
C5_Witness ==
  /\ isPaused
  /\ jpc = "sleeping"
  /\ i = BATCH_SIZE
  /\ Len(uncachedTexts) > BATCH_SIZE

\* C6: with every request succeeding and no cancel, a job that waits in the pause
\* loop at a batch boundary and is resumed eventually reports 'completed' with
\* current = total, every uncached chunk synthesized.
C6_ResumedJobCompletes ==
  (jpc = "sleeping") ~>
     (/\ Terminal
      /\ Last(reports).state = "completed"
      /\ Last(reports).current = Last(reports).total
      /\ completed = Len(uncachedTexts))

\* a job that waited in the pause loop before its second batch has completed
C6_Witness ==
  /\ Terminal
  /\ slept
  /\ Len(uncachedTexts) > BATCH_SIZE
  /\ Last(reports) = Progress("completed", Len(uncachedTexts), Len(uncachedTexts))

\* ============================================================ properties of the store
\* request r has just returned from isCached
JustChecked(r) == rexists[r] # "none" /\ rpc[r] \in {"upd_read", "synth"}

\* request r is inside migrateCacheFile
Migrating(r) ==
  rpc[r] \in {"mig_read_audio", "mig_write_audio", "mig_read_meta", "mig_write_meta",
             "mig_unlink_audio", "mig_unlink_meta"}

\* C7: served alone, isCached on an entry that is only in the legacy layout
\* returns true with the audio, and the metadata if there was any, copied to the
\* book/voice layout and both legacy files gone; and an isCached that finds the
\* audio in the book/voice layout returns true and leaves every file as it is.
C7_MigratesOnce ==
  /\ [](\A r \in Requests :
          (rlegacyOnly[r] /\ JustChecked(r)) =>
             /\ rexists[r] = "true"
             /\ nested[FilePath(r)].audio = legacy0[rkey[r]].audio
             /\ MetaExists(legacy0[rkey[r]].meta) =>
                  nested[FilePath(r)].meta = legacy0[rkey[r]].meta
             /\ legacy[rkey[r]] = NoEntry)
  /\ [][\A r \in Requests :
          (/\ rpc[r] = "access_nested"
           /\ Exists(nested[FilePath(r)].audio)
           /\ rpc'[r] # "access_nested") =>
             /\ rexists'[r] = "true"
             /\ legacy' = legacy
             /\ nested' = nested]_vars

\* a second isCached has found, without migrating, the entry a first one
\* migrated together with its metadata
C7_Witness ==
  \E r \in Requests :
    /\ JustChecked(r)
    /\ ~rmigrated[r]
    /\ rexists[r] = "true"
    /\ lastWriter[FilePath(r)] = "migrate"
    /\ MetaExists(legacy0[rkey[r]].meta)
    /\ legacy[rkey[r]] = NoEntry

\* C8: two requests that look up the same legacy-only entry at the same time
\* both get true from isCached; neither takes the entry for a cache miss.
C8_ConcurrentLookupsHit ==
  \A r, q \in Requests :
    (/\ r # q
     /\ FilePath(r) = FilePath(q)
     /\ rlegacyOnly[r] /\ rlegacyOnly[q]
     /\ rexists[r] # "none" /\ rexists[q] # "none")
    => (rexists[r] = "true" /\ rexists[q] = "true")

C10_OneLocationAfterMigration ==
  \A r \in Requests :
    (rmigrated[r] /\ rexists[r] # "none") =>
       /\ Exists(nested[FilePath(r)].audio)
       /\ legacy[rkey[r]] = NoEntry

\* ============================================================ properties of the routes
\* C11: when the check route has reported a text cached, for a request that
\* names a book and a voice, the entry is in the book/voice layout and no
\* legacy file of it is left.
C11_CheckUpgradesLayout ==
  \A r \in Requests :
    (rkind[r] = "check" /\ rresp[r] = "OK" /\ rbook[r] # <<>> /\ rvoice[r] # <<>>) =>
      \A n \in 1..Len(rall[r]) :
        rall[r][n].cached =>
          /\ Exists(nested[getCacheFilePath(rbook[r], rvoice[r], rall[r][n].cacheKey)].audio)
          /\ legacy[rall[r][n].cacheKey] = NoEntry

\* no request is being served on the entry at path p
Quiet(p) ==
  \A r \in Requests : rpc[r] = "idle" \/ rkind[r] # "synthesize" \/ FilePath(r) # p

\* C12: an entry created by cacheAudio has, whenever no request is being
\* served on it, useCount 1 + the number of HIT responses served for it since
\* it was created, in every interleaving of the requests.
C12_UseCountCountsHits ==
  \A p \in Paths :
    (lastWriter[p] = "cacheAudio" /\ Readable(nested[p].meta) /\ Quiet(p)) =>
      nested[p].meta.useCount = 1 + hits[p]

\* request r is inside the HIT branch of the handler
Hitting(r) == rpc[r] \in {"upd_read", "upd_write", "get_audio"}

\* request r is inside the MISS branch of the handler
Missing(r) == rpc[r] \in {"synth", "cache_write_audio", "cache_write_meta"}

\* C13: served one after the other, a request answered HIT carries the stored
\* audio and called the backend zero times, and is only in the HIT branch for
\* an entry that is stored; the backend is only called for an entry that is in
\* neither layout; a request answered MISS called the backend once and the
\* entry holds the bytes it returns; and a request that follows a MISS on the
\* same entry never enters the MISS branch.
C13_HitAndMiss ==
  \A r \in Requests :
    /\ Hitting(r) => (Exists(nested[FilePath(r)].audio) /\ rcalls[r] = 0)
    /\ rpc[r] = "synth" =>
         /\ rcalls[r] = 0
         /\ ~Exists(nested[FilePath(r)].audio)
         /\ ~Exists(legacy[rkey[r]].audio)
    /\ (rkind[r] = "synthesize" /\ rresp[r] = "HIT") =>
         /\ rcalls[r] = 0
         /\ rbuf[r] = nested[FilePath(r)].audio
    /\ (rkind[r] = "synthesize" /\ rresp[r] = "MISS") =>
         /\ rcalls[r] = 1
         /\ Exists(rbuf[r])
         /\ nested[FilePath(r)].audio = rbuf[r]
         /\ \A q \in Requests :
              (q # r /\ rpc[q] # "idle" /\ FilePath(q) = FilePath(r)) =>
                 (rpc[q] = "access_nested" \/ Hitting(q))

\* a request was answered MISS and the identical request that followed it was
\* answered HIT
C13_Witness ==
  \E r, q \in Requests :
    /\ r # q
    /\ rresp[q] = "MISS" /\ rcalls[q] = 1
    /\ rresp[r] = "HIT" /\ rcalls[r] = 0
    /\ rraw[r] = rraw[q] /\ FilePath(r) = FilePath(q)
    /\ lastWriter[FilePath(r)] = "cacheAudio"

\* the first n characters of s
Prefix(s, n) == [j \in 1..n |-> s[j]]

\* s is `hash` followed by nothing or by '-' and a session suffix
HasHash(s, hash) ==
  /\ Len(s) >= Len(hash)
  /\ Prefix(s, Len(hash)) = hash
  /\ Len(s) > Len(hash) => s[Len(hash) + 1] = "-"

\* two different book keys with the same, non-empty hash before the first '-'
SameBook(k1, k2) ==
  /\ k1 # k2
  /\ \E n \in 1..Len(k1) :
       /\ \A j \in 1..n : k1[j] # "-"
       /\ HasHash(k1, Prefix(k1, n))
       /\ HasHash(k2, Prefix(k1, n))

\* request r names another book key of the book whose entry at path p was
\* stored by the synthesis route
OtherSession(r, p) ==
  /\ lastWriter[p] = "cacheAudio"
  /\ Exists(nested[p].audio)
  /\ SameBook(storedAs[p], rraw[r])

\* C14: audio stored by the synthesis route under one book key is, for a
\* request under another key of the same hash, found by isCached of the
\* synthesis route and answered HIT, reported cached by the check route, and
\* counted by the book-status route.
C14_SessionsShareEntries ==
  \A p \in Paths : \A r \in Requests :
    OtherSession(r, p) =>
      /\ (rkind[r] = "synthesize" /\ rvoice[r] = p[2] /\ rkey[r] = p[3]) =>
           /\ rexists[r] # "false"
           /\ rresp[r] # "none" => rresp[r] = "HIT"
      /\ (rkind[r] = "check" /\ rvoice[r] = p[2]) =>
           \A n \in 1..Len(rall[r]) : rall[r][n].cacheKey = p[3] => rall[r][n].cached
      /\ (rkind[r] = "book-status" /\ rresp[r] = "OK") =>
           /\ rvoice[r] = p[2] => rcount[r] >= 1
           /\ rvoice[r] = <<>> => (rcount[r] >= 1 /\ rvoices[r][p[2]] >= 1)

\* a request under another session's key of the same book was answered HIT
\* with the audio stored under the first key
C14_Witness ==
  \E p \in Paths : \E r \in Requests :
    /\ OtherSession(r, p)
    /\ rkind[r] = "synthesize" /\ FilePath(r) = p
    /\ rresp[r] = "HIT"
    /\ rbuf[r] = nested[p].audio

\* ============================================================ properties of the keys
\* the first word of s, which does not start with whitespace
RECURSIVE FirstWord(_)
FirstWord(s) ==
  IF s = <<>> \/ Head(s) \in WhiteSpace THEN <<>> ELSE <<Head(s)>> \o FirstWord(Tail(s))

\* the words of s: its maximal runs of characters that are not whitespace
RECURSIVE Words(_)
Words(s) ==
  IF s = <<>> THEN <<>>
  ELSE IF Head(s) \in WhiteSpace THEN Words(Tail(s))
  ELSE <<FirstWord(s)>> \o Words(SubSeq(s, Len(FirstWord(s)) + 1, Len(s)))

\* two texts that differ at most in their whitespace: in the length or the
\* characters of whitespace runs, or in leading or trailing whitespace
SameUpToWhitespace(s, t) == Words(s) = Words(t)

\* C15: each route derives a key for every pair of texts, the empty text
\* included; texts that are equal up to whitespace get the same key for the
\* same voice, in the synthesis route and in the check route; and the two
\* routes derive the same keys.
C15_KeyNormalized ==
  /\ synthKeys # <<>> =>
       /\ Len(synthKeys) = 2
       /\ SameUpToWhitespace(keyText[1], keyText[2]) => synthKeys[1] = synthKeys[2]
  /\ checkKeys # <<>> =>
       /\ Len(checkKeys) = 2
       /\ SameUpToWhitespace(keyText[1], keyText[2]) => checkKeys[1] = checkKeys[2]
  /\ (synthKeys # <<>> /\ checkKeys # <<>>) => synthKeys = checkKeys

\* both routes have derived the keys of two different texts of two words that
\* differ in the length of the whitespace between the words
C15_Witness ==
  /\ synthKeys # <<>> /\ checkKeys # <<>>
  /\ keyText[1] # keyText[2]
  /\ Len(keyText[1]) # Len(keyText[2])
  /\ Len(Words(keyText[1])) = 2
  /\ SameUpToWhitespace(keyText[1], keyText[2])
  /\ Head(keyText[1]) \notin WhiteSpace /\ Head(keyText[2]) \notin WhiteSpace
  /\ Last(keyText[1]) \notin WhiteSpace /\ Last(keyText[2]) \notin WhiteSpace

\* ============================================================ properties of reads
\* C16: served one after the other, a request answered HIT on the entry another
\* request stored (answered MISS) carries exactly the bytes that were stored,
\* and a HIT on an entry a migration stored carries the bytes of the legacy file.
C16_ReadsWhatWasStored ==
  \A r \in Requests :
    (rkind[r] = "synthesize" /\ rresp[r] = "HIT") =>
      /\ \A q \in Requests :
           (rkind[q] = "synthesize" /\ rresp[q] = "MISS" /\ FilePath(q) = FilePath(r)) =>
              rbuf[r] = rbuf[q]
      /\ lastWriter[FilePath(r)] = "migrate" => rbuf[r] = legacy0[rkey[r]].audio

\* the payload "a2" was stored for an entry and the next request read it
C16_Witness ==
  \E r, q \in Requests :
    /\ rresp[q] = "MISS" /\ rbuf[q] = "a2"
    /\ rresp[r] = "HIT" /\ rbuf[r] = "a2"
    /\ FilePath(r) = FilePath(q)
    /\ nested[FilePath(r)].audio = "a2"

\* the metadata file of the entry of request r is missing or does not parse
MetaUnreadable(r) == ~Readable(nested[FilePath(r)].meta)

\* C17: served one after the other, a request that found its entry cached while
\* the metadata file is missing or unparsable is answered HIT with the bytes of
\* the audio file; its updateMetadata step writes nothing, raises nothing and
\* hands over to getCachedAudio.
C17_HitWithoutMetadata ==
  /\ [](\A r \in Requests :
          (/\ rkind[r] = "synthesize"
           /\ rexists[r] = "true"
           /\ MetaUnreadable(r)) =>
             /\ rresp[r] # "ERROR"
             /\ rpc[r] = "idle" =>
                  /\ rresp[r] = "HIT"
                  /\ Exists(rbuf[r])
                  /\ rbuf[r] = nested[FilePath(r)].audio)
  /\ [][\A r \in Requests :
          (/\ rpc[r] = "upd_read"
           /\ MetaUnreadable(r)
           /\ rpc'[r] # "upd_read") =>
             /\ rpc'[r] = "get_audio"
             /\ nested' = nested
             /\ rresp'[r] = rresp[r]]_vars

\* a request was answered HIT on an entry whose metadata file does not parse
C17_Witness ==
  \E r \in Requests :
    /\ rkind[r] = "synthesize"
    /\ rpc[r] = "idle"
    /\ rexists[r] = "true"
    /\ nested[FilePath(r)].meta.kind = "corrupt"
    /\ rresp[r] = "HIT"
    /\ Exists(rbuf[r])

\* ============================================================ properties of eviction
\* request r is an eviction that has answered
Evicted(r) == rkind[r] = "evict" /\ rresp[r] = "OK"

\* C18: when an eviction for book B (every voice) has answered, no entry is
\* left in the book/voice directories of B nor in the flat layout with B in
\* its metadata; when an eviction without filter has answered, no entry is left
\* in either layout.
C18_EvictRemovesBook ==
  \A r \in Requests :
    Evicted(r) =>
      /\ (rraw[r] # <<>> /\ rvoice[r] = <<>>) =>
           /\ \A p \in Paths : p[1] = rraw[r] => ~Exists(nested[p].audio)
           /\ \A k \in Keys :
                (Readable(legacy[k].meta) /\ legacy[k].meta.bookKey = rraw[r]) =>
                   ~Exists(legacy[k].audio)
      /\ (rraw[r] = <<>> /\ rvoice[r] = <<>>) =>
           /\ \A p \in Paths : ~Exists(nested[p].audio)
           /\ \A k \in Keys : ~Exists(legacy[k].audio)

\* the metadata `meta` matches the filter: a filter that is not given matches
\* every book, respectively every voice
MatchesFilter(meta, bookKey, voice) ==
  /\ bookKey = <<>> \/ meta.bookKey = bookKey
  /\ voice = <<>> \/ meta.voice = voice

\* C19: the step of an eviction that handles the scanned audio file k deletes
\* it if and only if its metadata matches the filter, when the metadata is
\* readable, and deletes it only if no filter is given, when it is not; it
\* deletes the whole entry or nothing, and touches no other entry.
C19_EvictDeletesMatches ==
  [][\A r \in Requests : \A k \in Keys :
       (rpc[r] = "evict_files" /\ k \in rfiles[r] /\ k \notin rfiles'[r]) =>
          /\ Readable(legacy[k].meta) =>
               (~Exists(legacy'[k].audio) <=> MatchesFilter(legacy[k].meta, rraw[r], rvoice[r]))
          /\ ~Readable(legacy[k].meta) =>
               (~Exists(legacy'[k].audio) => (rraw[r] = <<>> /\ rvoice[r] = <<>>))
          /\ legacy'[k] \in {legacy[k], NoEntry}
          /\ \A j \in Keys \ {k} : legacy'[j] = legacy[j]]_vars

\* an eviction for a book and every voice has answered: it deleted one scanned
\* entry and left the scanned entry of another book
C19_Witness ==
  \E r \in Requests : \E k \in Keys :
    /\ Evicted(r)
    /\ rraw[r] # <<>> /\ rvoice[r] = <<>>
    /\ rcount[r] = 1
    /\ Exists(legacy[k].audio)
    /\ Readable(legacy[k].meta)
    /\ legacy[k].meta.bookKey # rraw[r]

\* ============================================================ properties of the statistics
\* the entries of voice v that the synthesis route stored, with their metadata
StoredFor(v) ==
  {p \in Paths : /\ p[2] = v
                 /\ lastWriter[p] = "cacheAudio"
                 /\ Exists(nested[p].audio)
                 /\ Readable(nested[p].meta)}

\* C20: when the statistics have been answered, the per-voice breakdown counts,
\* for every voice, at least the entries the synthesis route has stored for it.
C20_StatsSeeStoredEntries ==
  \A r \in Requests :
    (rkind[r] = "stats" /\ rresp[r] = "OK") =>
      \A v \in Voices : rvoices[r][v] >= Cardinality(StoredFor(v))

\* ============================================================ properties of extraction
\* the number of distinct texts among `texts` once whitespace is normalized
DistinctNormalized(texts) == Cardinality({Words(texts[n]) : n \in 1..Len(texts)})

\* C21: the total the cache check reports for the extracted chunks, and the
\* number of synthesizeText calls of a job on an empty store, equal the number
\* of extracted chunks that are distinct up to whitespace.
C21_ChunksDistinctUpToWhitespace ==
  /\ xpc \in {"checked", "synthesized"} => totalCount = DistinctNormalized(extracted)
  /\ xpc = "synthesized" => requests = DistinctNormalized(extracted)

\* ============================================================ properties of the reports
\* C22: a rejected synthesizeText call never makes the job report 'failed' or
\* stop, and a job that was not cancelled and had chunks to synthesize ends
\* with 'completed' after a call for every uncached chunk, whichever calls
\* were rejected.
C22_FailuresDoNotStopJob ==
  /\ []((Terminal /\ ~CancelledInRun /\ uncachedTexts # <<>>) =>
          /\ Last(reports).state = "completed"
          /\ Dispatched = Range(uncachedTexts))
  /\ [][failedReq' # failedReq =>
          /\ \A n \in 1..Len(reports') : reports'[n].state # "failed"
          /\ (jpc' = "done" /\ ~aborted) => Last(reports').state = "completed"]_vars

\* a job of two batches has completed, with the second batch synthesized,
\* although two chunks of the first batch failed
C22_Witness ==
  /\ Terminal
  /\ ~CancelledInRun
  /\ Len(uncachedTexts) > BATCH_SIZE
  /\ Last(reports).state = "completed"
  /\ Cardinality(failedReq \cap Batch(uncachedTexts, 0)) >= 2
  /\ \E c \in succeeded : c \in Batch(uncachedTexts, BATCH_SIZE)

\* a report made in or after the synthesizing phase
OfSynthesis(report) ==
  /\ uncachedTexts # <<>>
  /\ report.state \in {"synthesizing", "completed", "cancelled"}

\* C23: the latest report of the synthesizing phase, the terminal report
\* included, has current equal to the number of chunks whose synthesizeText
\* call resolved.
C23_CurrentCountsSucceeded ==
  (reports # <<>> /\ OfSynthesis(Last(reports))) =>
     Last(reports).current = Cardinality(succeeded)

\* C24: from each progress report of a job to the next, neither current nor
\* total decreases.
C24_CountersNeverDecrease ==
  \A n \in 1..(Len(reports) - 1) :
    /\ reports[n + 1].current >= reports[n].current
    /\ reports[n + 1].total >= reports[n].total

\* the states of the reports made so far
ReportedStates == {reports[n].state : n \in 1..Len(reports)}

\* C25: once extractBookText has returned no chunk, the job has ended with a
\* 'failed' report that carries an error detail, without a cache check and
\* without a synthesizeText call.
C25_EmptyBookFails ==
  allTexts = 0 =>
    /\ Terminal
    /\ Last(reports).state = "failed"
    /\ Last(reports).error # "none"
    /\ "checking" \notin ReportedStates
    /\ Dispatched = {}

\* the extraction returned no chunk and the job reported extracting, then failed
C25_Witness ==
  /\ allTexts = 0
  /\ Len(reports) = 2
  /\ Last(reports) = Failure("Book appears to be empty")

\* the cache check has answered and reported every extracted chunk cached
AllCached ==
  /\ "checking" \in ReportedStates
  /\ jpc # "checking"
  /\ Last(reports).state # "failed"
  /\ uncachedTexts = <<>>

\* C26: when the cache check has reported every extracted chunk cached, the job
\* has ended with a 'completed' report at 100% with current = total = the
\* number of extracted chunks, and no synthesizeText call was made.
C26_AllCachedCompletes ==
  AllCached =>
    /\ Terminal
    /\ Last(reports) = Progress("completed", allTexts, allTexts)
    /\ Last(reports).percentage = 100
    /\ Last(reports).current = Last(reports).total
    /\ Dispatched = {}

\* a book of several chunks, all cached: the job reported extracting,
\* checking, completed
C26_Witness ==
  /\ AllCached
  /\ allTexts > 1
  /\ Len(reports) = 3
  /\ Last(reports).state = "completed"
  /\ Last(reports).percentage = 100

\* a pre-cache job is in progress on the service instance
InProgress == jpc \notin {"idle", "done"}

\* C27: isActive is true exactly while a job is in progress: false before the
\* first start, true during the job, false once the job has made its terminal
\* report.
C27_ActiveWhileInProgress == isActive <=> InProgress

\* extractBookText has returned or thrown
Extracted == xpc \in {"returned", "thrown", "checked", "synthesized"}

\* C28: once extractBookText has returned or thrown, the view shows the page
\* it showed before the call.
C28_PositionRestored == Extracted => location = location0

\* ------------------------------------------------------------ C29
\* the transitions of the job state that the specification allows
AllowedTransitions ==
  {<<"extracting", "checking">>, <<"extracting", "failed">>,
   <<"checking", "synthesizing">>, <<"checking", "completed">>, <<"checking", "failed">>,
   <<"synthesizing", "synthesizing">>, <<"synthesizing", "paused">>,
   <<"synthesizing", "completed">>, <<"synthesizing", "cancelled">>,
   <<"synthesizing", "failed">>,
   <<"paused", "synthesizing">>}

\* every state of the sequence follows its predecessor by an allowed transition
FollowsTransitions(states) ==
  \A n \in 1..(Len(states) - 1) : <<states[n], states[n + 1]>> \in AllowedTransitions

\* the states passed to the progress callback, in order
CallbackStates == [n \in 1..Len(reports) |-> reports[n].state]

\* C29: the job state seen through the progress callback and the job state
\* mirrored per book both change only by the allowed transitions: extracting to
\* checking or failed; checking to synthesizing, completed or failed;
\* synthesizing to synthesizing, paused, completed, cancelled or failed; paused
\* only from synthesizing and only to synthesizing.
C29_OnlyAllowedTransitions ==
  /\ FollowsTransitions(CallbackStates)
  /\ FollowsTransitions(mirrored)

\* ------------------------------------------------------------ C30
\* the 'synthesizing' reports of the job
SynthesizingReports == {n \in 1..Len(reports) : reports[n].state = "synthesizing"}

\* the batches of a job that synthesizes every uncached chunk
Batches == (Len(uncachedTexts) + BATCH_SIZE - 1) \div BATCH_SIZE

\* C30: the progress callback is invoked once per batch, after the batch has
\* resolved: a job that completed its synthesis made, after the initial
\* 'synthesizing' report, as many 'synthesizing' reports as it processed batches.
C30_OneReportPerBatch ==
  (Terminal /\ uncachedTexts # <<>> /\ Last(reports).state = "completed") =>
    Cardinality(SynthesizingReports) - 1 = Batches

\* ------------------------------------------------------------ C31
\* the first k chunks of the uncached subset
Leading(k) == {uncachedTexts[n] : n \in 1..Min(k, Len(uncachedTexts))}

\* C31: the uncached subset keeps the order of extraction, a batch is the next
\* BATCH_SIZE consecutive chunks of it, and a batch is dispatched only when every
\* request of the batches before it has settled, by success or by failure.
C31_BatchesInOrder ==
  /\ [](/\ \A a, b \in 1..Len(uncachedTexts) : a < b => uncachedTexts[a] < uncachedTexts[b]
        /\ jpc = "awaiting" =>
             /\ inflight \subseteq Batch(uncachedTexts, i)
             /\ Dispatched = Leading(i + BATCH_SIZE)
             /\ Leading(i) \subseteq succeeded \cup failedReq)
  /\ [][(inflight' \ inflight) # {} =>
          /\ inflight' = Batch(uncachedTexts', i')
          /\ Dispatched \subseteq succeeded' \cup failedReq']_vars

C31_Witness ==
  /\ jpc = "awaiting"
  /\ i = BATCH_SIZE
  /\ inflight = Batch(uncachedTexts, BATCH_SIZE)
  /\ Leading(BATCH_SIZE) \cap succeeded # {}
  /\ Leading(BATCH_SIZE) \cap failedReq # {}

\* ------------------------------------------------------------ C32
\* request r found the audio file of its entry and is about to read the entry
Reading(r) == rpc[r] \in {"upd_read", "get_audio"} /\ rexists[r] = "true"

\* the entry was written by cacheAudio and its two files are of the same write
WholeEntry(e) == MetaExists(e.meta) /\ e.meta.size = e.audio

\* C32: a write of an entry appears atomic to concurrent readers: a reader that
\* finds the audio of an entry written by cacheAudio finds the metadata of that
\* same write, never no metadata and never the metadata of an earlier write.
C32_WritesAppearAtomic ==
  \A r \in Requests :
    (Reading(r) /\ lastWriter[FilePath(r)] = "cacheAudio"
                /\ Exists(nested[FilePath(r)].audio)) => WholeEntry(nested[FilePath(r)])

\* ------------------------------------------------------------ C33
\* C33: every progress report has 0 <= current <= total and, as percentage, the
\* integer nearest to current * 100 / total (0 when total is 0), a number
\* between 0 and 100.
C33_ReportWithinBounds ==
  \A n \in 1..Len(reports) :
    /\ 0 <= reports[n].current
    /\ reports[n].current <= reports[n].total
    /\ reports[n].percentage = Percentage(reports[n].current, reports[n].total)
    /\ reports[n].percentage \in 0..100

\* ============================================================ properties of the lists
\* a is listed ahead of b: its key is higher, or the keys are equal and a was
\* enumerated first
Ahead(a, b, key(_)) == key(a) > key(b) \/ (key(a) = key(b) /\ a.text < b.text)

\* `list` holds the LIST_SIZE entries of `all` (all of them when there are
\* fewer) that are ahead of every other entry, each ahead of the ones after it
Leaders(list, all, key(_)) ==
  /\ Len(list) = Min(LIST_SIZE, Len(all))
  /\ \A p \in 1..Len(list) : \E n \in 1..Len(all) : all[n] = list[p]
  /\ \A p, q \in 1..Len(list) : p < q => Ahead(list[p], list[q], key)
  /\ \A n \in 1..Len(all) :
       (\A p \in 1..Len(list) : list[p] # all[n]) =>
         \A p \in 1..Len(list) : Ahead(list[p], all[n], key)

\* C34: topUsed holds the at most 10 entries with the highest useCount, highest
\* first, and recent the at most 10 entries with the latest lastUsed, latest
\* first; entries with equal keys keep the order of the enumeration.
C34_ListsAreLeaders ==
  spc = "responded" =>
    /\ LET useCount(e) == e.useCount IN Leaders(topUsed, allMetadata, useCount)
    /\ LET lastUsed(e) == e.lastUsed IN Leaders(recent, allMetadata, lastUsed)

C34_Witness ==
  /\ spc = "responded"
  /\ Len(allMetadata) > LIST_SIZE
  /\ Len(topUsed) = LIST_SIZE
  /\ Len(recent) = LIST_SIZE
  /\ topUsed # SubSeq(allMetadata, 1, LIST_SIZE)
  /\ recent # SubSeq(allMetadata, 1, LIST_SIZE)
  /\ topUsed[1].useCount = topUsed[2].useCount
  /\ topUsed[1].useCount > topUsed[LIST_SIZE].useCount

\* ============================================================ properties of the responses
\* the body of the request does not parse or lacks a field the route asks for
\* (the load-model route passes the body on as it is)
Malformed(req) == ~req.json \/ (req.route # "load-model" /\ ~req.fields)

\* the route asks for a credential and the request has none
Unauthorized(req) == req.route = "load-model" /\ ~req.apiKey

\* the handler gets as far as the call of the synthesis backend
CallsBackend(req) ==
  /\ ~Malformed(req)
  /\ ~Unauthorized(req)
  /\ req.route = "load-model" \/ (req.route = "synthesize" /\ ~req.cached)

\* any other failure: the backend answers with a status that is not 2xx, or a
\* file system call of the synthesis route fails
FailsOtherwise(req) ==
  \/ CallsBackend(req) /\ req.backend \in {"404", "500"}
  \/ /\ req.route = "synthesize" /\ ~Malformed(req) /\ req.fsFails
     /\ req.cached \/ req.backend = "ok"

\* C35: a request with missing or malformed input is answered 400, a request
\* without the credential 401, an unreachable backend 503 and any other
\* failure, a backend status that is not 2xx included, 500; every error response
\* has an error and a details field.
C35_StatusCodes ==
  hpc = "responded" =>
    /\ (Malformed(hreq) /\ ~Unauthorized(hreq)) => hres.status = 400
    /\ (Unauthorized(hreq) /\ ~Malformed(hreq)) => hres.status = 401
    /\ (CallsBackend(hreq) /\ hreq.backend = "unreachable") => hres.status = 503
    /\ FailsOtherwise(hreq) => hres.status = 500
    /\ hres.status >= 400 => (hres.error /\ hres.details)

\* ============================================================ check and synthesis
\* isCached of the synthesis route as POST calls it: the file of the book
\* (of '_default' when no bookKey is sent) and voice, then the legacy file
synthesize_isCached(bookKey, voice, cacheKey) ==
  LET effectiveBookKey == IF bookKey # <<>> THEN extractBookHash(bookKey) ELSE Default
  IN \/ Exists(nested[getCacheFilePath(effectiveBookKey, voice, cacheKey)].audio)
     \/ Exists(legacy[cacheKey].audio)

\* the check route has answered request r and the cache is as it found it
Checked(r) == rkind[r] = "check" /\ rpc[r] = "idle" /\ rresp[r] = "OK"

\* C36: when the check route has answered, for the text, the voice and the
\* bookKey (or none) of the request, it reports the text cached exactly when
\* the synthesis route, called next with the same arguments, finds the entry
\* and takes its HIT branch.
C36_CheckAgreesWithSynthesize ==
  \A r \in Requests :
    Checked(r) =>
      \A n \in 1..Len(rall[r]) :
        rall[r][n].cached <=>
          synthesize_isCached(rraw[r], rvoice[r], generateCacheKey(TheText, rvoice[r]))

\* ============================================================ failed synthesis
\* the step of request r in which its call of the backend fails
BackendFails(r) == rpc[r] = "synth" /\ rresp'[r] = "ERROR"

\* C37: the step in which the backend call of a request fails, which is only
\* taken when isCached found the entry in neither layout, changes no audio
\* file and no metadata file of either layout, and ends the request with an
\* error response.
C37_FailedSynthesisLeavesCache ==
  /\ [](\A r \in Requests : rpc[r] = "synth" => rexists[r] = "false")
  /\ [][\A r \in Requests :
          BackendFails(r) =>
            /\ nested' = nested
            /\ legacy' = legacy
            /\ rpc'[r] = "idle"
            /\ rcalls'[r] = rcalls[r] + 1]_vars

\* a request was answered with an error after its backend call failed, and
\* its entry is in neither layout
C37_Witness ==
  \E r \in Requests :
    /\ rkind[r] = "synthesize" /\ rpc[r] = "idle" /\ rresp[r] = "ERROR" /\ rcalls[r] = 1
    /\ nested[FilePath(r)] = NoEntry
    /\ legacy[rkey[r]] = NoEntry

\* ============================================================ termination of the job
\* the job was started
Started == jpc # "idle"

\* the terminal reports among the reports made
TerminalReports == {n \in 1..Len(reports) : reports[n].state \in TerminalStates}

\* a job makes no terminal report before it returns, exactly one when it
\* returns, as its last report, and no report afterwards
OneTerminalReport ==
  /\ [](IF Terminal
        THEN TerminalReports = {Len(reports)}
        ELSE TerminalReports = {})
  /\ [][Terminal => reports' = reports]_vars

\* C38: every started job eventually makes exactly one terminal report
\* (completed, failed or cancelled) and no report after it, when every
\* extraction, check and synthesis call settles and every pause is followed by
\* a resume or a cancel.
C38_JobTerminates ==
  /\ OneTerminalReport
  /\ Started ~> Terminal

\* C38, amended: the same, for the jobs that are eventually not paused any more.
C38_UnpausedJobTerminates ==
  /\ OneTerminalReport
  /\ (<>[]~isPaused) => (Started ~> Terminal)

\* a job that waited in the pause loop, was resumed, lost a request and was
\* cancelled before its second batch has made its terminal report
C38_Witness ==
  /\ Terminal
  /\ slept
  /\ failedReq # {}
  /\ Len(uncachedTexts) > BATCH_SIZE
  /\ Last(reports).state = "cancelled"

\* ============================================================ cancel in the dialog
\* C39: once the Cancel button of the dialog has cancelled the job, the entry
\* of the book in activePreCaches shows no non-terminal state any more, and
\* once the timer of handleCancel has removed the entry it stays removed,
\* whenever the requests in flight settle.
C39_CancelledStaysCancelled ==
  aborted =>
    /\ activePreCaches \in TerminalStates \cup {Absent}
    /\ removeTimer = 0 => activePreCaches = Absent

\* ============================================================ the reopened dialog
\* the step is a press of the Pause, Resume or Cancel button of the dialog
PausePressed == mirrored' = Append(mirrored, "paused")

ResumePressed ==
  /\ progress = "paused"
  /\ reports' = reports
  /\ mirrored' = Append(mirrored, "synthesizing")

CancelPressed == removeTimer' = removeTimer + 1

\* the job of the book is running: preCacheBook was called and has not returned
Running == jpc \notin {"idle", "done"}

\* C40: a press of Pause, Resume or Cancel in the dialog of a book whose job is
\* running acts on the service that runs the job, also in a dialog that was
\* closed and opened again meanwhile: after Pause the job's pause flag is set,
\* after Resume it is clear, after Cancel the job's signal is aborted.
C40_ButtonsReachRunningJob ==
  [][Running =>
       /\ PausePressed => isPaused'
       /\ ResumePressed => ~isPaused'
       /\ CancelPressed => aborted']_vars

\* ============================================================ specifications
NoRequests ==
  /\ legacy = <<>>
  /\ nested = <<>>
  /\ rpc = <<>>
  /\ rkind = <<>>
  /\ rraw = <<>>
  /\ rvoice = <<>>
  /\ rkey = <<>>
  /\ rbook = <<>>
  /\ rbuf = <<>>
  /\ rmeta = <<>>
  /\ rexists = <<>>
  /\ rmigrated = <<>>
  /\ rlegacyOnly = <<>>
  /\ rresp = <<>>
  /\ rcalls = <<>>
  /\ rfiles = <<>>
  /\ rfound = <<>>
  /\ rall = <<>>
  /\ rcount = <<>>
  /\ rvoices = <<>>
  /\ legacy0 = <<>>
  /\ lastWriter = <<>>
  /\ storedAs = <<>>
  /\ hits = <<>>
  /\ nreq = 0

Init == JobInit /\ NoRequests /\ NoKeys /\ NoView /\ NoDialog /\ NoStats /\ NoHttp

Next ==
  \/ Start /\ UNCHANGED <<storeVars, keyVars, viewVars, dialogVars, statVars, httpVars>>
  \/ \E n \in 0..MaxChunks : ExtractDone(n) /\ UNCHANGED <<storeVars, keyVars, viewVars, dialogVars, statVars, httpVars>>
  \/ JobThrows /\ UNCHANGED <<storeVars, keyVars, viewVars, dialogVars, statVars, httpVars>>
  \/ \E cached \in CachedChoices(allTexts) : CheckDone(cached) /\ UNCHANGED <<storeVars, keyVars, viewVars, dialogVars, statVars, httpVars>>
  \/ Wake /\ UNCHANGED <<storeVars, keyVars, viewVars, dialogVars, statVars, httpVars>>
  \/ \E c \in 1..MaxChunks : Succeed(c) /\ UNCHANGED <<storeVars, keyVars, viewVars, dialogVars, statVars, httpVars>>
  \/ \E c \in 1..MaxChunks : Fail(c) /\ UNCHANGED <<storeVars, keyVars, viewVars, dialogVars, statVars, httpVars>>
  \/ Pause /\ UNCHANGED <<storeVars, keyVars, viewVars, dialogVars, statVars, httpVars>>
  \/ Resume /\ UNCHANGED <<storeVars, keyVars, viewVars, dialogVars, statVars, httpVars>>
  \/ Cancel /\ UNCHANGED <<storeVars, keyVars, viewVars, dialogVars, statVars, httpVars>>

Spec == Init /\ [][Next]_vars

\* the job with every request succeeding, no cancel and no failing extraction or
\* check; pause() is called at most MaxPauses times and every pause is resumed.
\* Timers fire and pending promises settle: weak fairness of the job's steps.
JobStep ==
  \/ \E n \in 0..MaxChunks : ExtractDone(n) /\ UNCHANGED <<storeVars, keyVars, viewVars, dialogVars, statVars, httpVars>>
  \/ \E cached \in CachedChoices(allTexts) : CheckDone(cached) /\ UNCHANGED <<storeVars, keyVars, viewVars, dialogVars, statVars, httpVars>>
  \/ Wake /\ UNCHANGED <<storeVars, keyVars, viewVars, dialogVars, statVars, httpVars>>
  \/ \E c \in 1..MaxChunks : Succeed(c) /\ UNCHANGED <<storeVars, keyVars, viewVars, dialogVars, statVars, httpVars>>

LiveNext ==
  \/ Start /\ UNCHANGED <<storeVars, keyVars, viewVars, dialogVars, statVars, httpVars>>
  \/ JobStep
  \/ PauseLimited /\ UNCHANGED <<storeVars, keyVars, viewVars, dialogVars, statVars, httpVars>>
  \/ Resume /\ UNCHANGED <<storeVars, keyVars, viewVars, dialogVars, statVars, httpVars>>

LiveSpec ==
  /\ Init
  /\ [][LiveNext]_vars
  /\ WF_vars(JobStep)
  /\ WF_vars(Resume /\ UNCHANGED <<storeVars, keyVars, viewVars, dialogVars, statVars, httpVars>>)

\* the job with failing extraction, check and requests, with cancel() and with
\* pause() called any number of times. Every pending promise settles: weak
\* fairness of the steps that settle one; a pause is followed by a resume or
\* a cancel: weak fairness of the two while the flag is set.
Settles ==
  \/ \E n \in 0..MaxChunks : ExtractDone(n) /\ UNCHANGED <<storeVars, keyVars, viewVars, dialogVars, statVars, httpVars>>
  \/ JobThrows /\ UNCHANGED <<storeVars, keyVars, viewVars, dialogVars, statVars, httpVars>>
  \/ \E cached \in CachedChoices(allTexts) : CheckDone(cached) /\ UNCHANGED <<storeVars, keyVars, viewVars, dialogVars, statVars, httpVars>>
  \/ Wake /\ UNCHANGED <<storeVars, keyVars, viewVars, dialogVars, statVars, httpVars>>
  \/ \E c \in 1..MaxChunks : Succeed(c) /\ UNCHANGED <<storeVars, keyVars, viewVars, dialogVars, statVars, httpVars>>
  \/ \E c \in 1..MaxChunks : Fail(c) /\ UNCHANGED <<storeVars, keyVars, viewVars, dialogVars, statVars, httpVars>>

Unpauses ==
  \/ Resume /\ UNCHANGED <<storeVars, keyVars, viewVars, dialogVars, statVars, httpVars>>
  \/ isPaused /\ Cancel /\ UNCHANGED <<storeVars, keyVars, viewVars, dialogVars, statVars, httpVars>>

RunNext ==
  \/ Start /\ UNCHANGED <<storeVars, keyVars, viewVars, dialogVars, statVars, httpVars>>
  \/ Settles
  \/ Pause /\ UNCHANGED <<storeVars, keyVars, viewVars, dialogVars, statVars, httpVars>>
  \/ Unpauses
  \/ Cancel /\ UNCHANGED <<storeVars, keyVars, viewVars, dialogVars, statVars, httpVars>>

RunSpec ==
  /\ Init
  /\ [][RunNext]_vars
  /\ WF_vars(Settles)
  /\ WF_vars(Unpauses)

\* the book keys of the requests for the one text
TwoBooks == {<<"h", "-", "s">>, <<"g", "-", "s">>}

\* the synthesis route serving one request at a time
SeqInit == JobInit /\ StoreInit /\ NoKeys /\ NoView /\ NoDialog /\ NoStats /\ NoHttp

SeqNext ==
  \/ \E r \in Requests, k \in TwoBooks : StartAlone(r, k, TheText, TheVoice) /\ UNCHANGED <<jobVars, keyVars, viewVars, dialogVars, statVars, httpVars>>
  \/ \E r \in Requests : AccessNested(r) /\ UNCHANGED <<jobVars, keyVars, viewVars, dialogVars, statVars, httpVars>>
  \/ \E r \in Requests : AccessLegacy(r) /\ UNCHANGED <<jobVars, keyVars, viewVars, dialogVars, statVars, httpVars>>
  \/ \E r \in Requests : MigReadAudio(r) /\ UNCHANGED <<jobVars, keyVars, viewVars, dialogVars, statVars, httpVars>>
  \/ \E r \in Requests : MigWriteAudio(r) /\ UNCHANGED <<jobVars, keyVars, viewVars, dialogVars, statVars, httpVars>>
  \/ \E r \in Requests : MigReadMeta(r) /\ UNCHANGED <<jobVars, keyVars, viewVars, dialogVars, statVars, httpVars>>
  \/ \E r \in Requests : MigWriteMeta(r) /\ UNCHANGED <<jobVars, keyVars, viewVars, dialogVars, statVars, httpVars>>
  \/ \E r \in Requests : MigUnlinkAudio(r) /\ UNCHANGED <<jobVars, keyVars, viewVars, dialogVars, statVars, httpVars>>
  \/ \E r \in Requests : MigUnlinkMeta(r) /\ UNCHANGED <<jobVars, keyVars, viewVars, dialogVars, statVars, httpVars>>
  \/ \E r \in Requests : UpdReadMeta(r) /\ UNCHANGED <<jobVars, keyVars, viewVars, dialogVars, statVars, httpVars>>
  \/ \E r \in Requests : UpdWriteMeta(r) /\ UNCHANGED <<jobVars, keyVars, viewVars, dialogVars, statVars, httpVars>>
  \/ \E r \in Requests : GetCachedAudio(r) /\ UNCHANGED <<jobVars, keyVars, viewVars, dialogVars, statVars, httpVars>>
  \/ \E r \in Requests : SynthFails(r) /\ UNCHANGED <<jobVars, keyVars, viewVars, dialogVars, statVars, httpVars>>
  \/ \E r \in Requests : CacheWriteAudio(r) /\ UNCHANGED <<jobVars, keyVars, viewVars, dialogVars, statVars, httpVars>>
  \/ \E r \in Requests : CacheWriteMeta(r) /\ UNCHANGED <<jobVars, keyVars, viewVars, dialogVars, statVars, httpVars>>
  \/ \E r \in Requests, bytes \in AudioBytes : SynthOk(r, bytes) /\ UNCHANGED <<jobVars, keyVars, viewVars, dialogVars, statVars, httpVars>>

SeqSpec == SeqInit /\ [][SeqNext]_vars

\* the synthesis route serving requests concurrently
ConcNext ==
  \/ \E r \in Requests, k \in TwoBooks : StartRequest(r, k, TheText, TheVoice) /\ UNCHANGED <<jobVars, keyVars, viewVars, dialogVars, statVars, httpVars>>
  \/ \E r \in Requests : AccessNested(r) /\ UNCHANGED <<jobVars, keyVars, viewVars, dialogVars, statVars, httpVars>>
  \/ \E r \in Requests : AccessLegacy(r) /\ UNCHANGED <<jobVars, keyVars, viewVars, dialogVars, statVars, httpVars>>
  \/ \E r \in Requests : MigReadAudio(r) /\ UNCHANGED <<jobVars, keyVars, viewVars, dialogVars, statVars, httpVars>>
  \/ \E r \in Requests : MigWriteAudio(r) /\ UNCHANGED <<jobVars, keyVars, viewVars, dialogVars, statVars, httpVars>>
  \/ \E r \in Requests : MigReadMeta(r) /\ UNCHANGED <<jobVars, keyVars, viewVars, dialogVars, statVars, httpVars>>
  \/ \E r \in Requests : MigWriteMeta(r) /\ UNCHANGED <<jobVars, keyVars, viewVars, dialogVars, statVars, httpVars>>
  \/ \E r \in Requests : MigUnlinkAudio(r) /\ UNCHANGED <<jobVars, keyVars, viewVars, dialogVars, statVars, httpVars>>
  \/ \E r \in Requests : MigUnlinkMeta(r) /\ UNCHANGED <<jobVars, keyVars, viewVars, dialogVars, statVars, httpVars>>
  \/ \E r \in Requests : UpdReadMeta(r) /\ UNCHANGED <<jobVars, keyVars, viewVars, dialogVars, statVars, httpVars>>
  \/ \E r \in Requests : UpdWriteMeta(r) /\ UNCHANGED <<jobVars, keyVars, viewVars, dialogVars, statVars, httpVars>>
  \/ \E r \in Requests : GetCachedAudio(r) /\ UNCHANGED <<jobVars, keyVars, viewVars, dialogVars, statVars, httpVars>>
  \/ \E r \in Requests : SynthFails(r) /\ UNCHANGED <<jobVars, keyVars, viewVars, dialogVars, statVars, httpVars>>
  \/ \E r \in Requests : CacheWriteAudio(r) /\ UNCHANGED <<jobVars, keyVars, viewVars, dialogVars, statVars, httpVars>>
  \/ \E r \in Requests : CacheWriteMeta(r) /\ UNCHANGED <<jobVars, keyVars, viewVars, dialogVars, statVars, httpVars>>
  \/ \E r \in Requests, bytes \in AudioBytes : SynthOk(r, bytes) /\ UNCHANGED <<jobVars, keyVars, viewVars, dialogVars, statVars, httpVars>>

ConcSpec == SeqInit /\ [][ConcNext]_vars

\* the routes serve one request at a time
Served == {"r1"}

\* the synthesis, check and book-status routes: the one text in one voice,
\* requested, checked and counted under every book key and under none
LookupNext ==
  \/ \E r \in Served, k \in BookKeys \cup {<<>>} :
        StartAlone(r, k, TheText, TheVoice) /\ UNCHANGED <<jobVars, keyVars, viewVars, dialogVars, statVars, httpVars>>
  \/ \E r \in Served : AccessNested(r) /\ UNCHANGED <<jobVars, keyVars, viewVars, dialogVars, statVars, httpVars>>
  \/ \E r \in Served : AccessLegacy(r) /\ UNCHANGED <<jobVars, keyVars, viewVars, dialogVars, statVars, httpVars>>
  \/ \E r \in Served : MigReadAudio(r) /\ UNCHANGED <<jobVars, keyVars, viewVars, dialogVars, statVars, httpVars>>
  \/ \E r \in Served : MigWriteAudio(r) /\ UNCHANGED <<jobVars, keyVars, viewVars, dialogVars, statVars, httpVars>>
  \/ \E r \in Served : MigReadMeta(r) /\ UNCHANGED <<jobVars, keyVars, viewVars, dialogVars, statVars, httpVars>>
  \/ \E r \in Served : MigWriteMeta(r) /\ UNCHANGED <<jobVars, keyVars, viewVars, dialogVars, statVars, httpVars>>
  \/ \E r \in Served : MigUnlinkAudio(r) /\ UNCHANGED <<jobVars, keyVars, viewVars, dialogVars, statVars, httpVars>>
  \/ \E r \in Served : MigUnlinkMeta(r) /\ UNCHANGED <<jobVars, keyVars, viewVars, dialogVars, statVars, httpVars>>
  \/ \E r \in Served : UpdReadMeta(r) /\ UNCHANGED <<jobVars, keyVars, viewVars, dialogVars, statVars, httpVars>>
  \/ \E r \in Served : UpdWriteMeta(r) /\ UNCHANGED <<jobVars, keyVars, viewVars, dialogVars, statVars, httpVars>>
  \/ \E r \in Served : GetCachedAudio(r) /\ UNCHANGED <<jobVars, keyVars, viewVars, dialogVars, statVars, httpVars>>
  \/ \E r \in Served : SynthFails(r) /\ UNCHANGED <<jobVars, keyVars, viewVars, dialogVars, statVars, httpVars>>
  \/ \E r \in Served : CacheWriteAudio(r) /\ UNCHANGED <<jobVars, keyVars, viewVars, dialogVars, statVars, httpVars>>
  \/ \E r \in Served : CacheWriteMeta(r) /\ UNCHANGED <<jobVars, keyVars, viewVars, dialogVars, statVars, httpVars>>
  \/ \E r \in Served, bytes \in AudioBytes : SynthOk(r, bytes) /\ UNCHANGED <<jobVars, keyVars, viewVars, dialogVars, statVars, httpVars>>
  \/ \E r \in Served, k \in BookKeys \cup {<<>>} :
        StartCheck(r, k, TheVoice, {TheText}) /\ UNCHANGED <<jobVars, keyVars, viewVars, dialogVars, statVars, httpVars>>
  \/ \E r \in Served, k \in Keys : CheckText(r, k) /\ UNCHANGED <<jobVars, keyVars, viewVars, dialogVars, statVars, httpVars>>
  \/ \E r \in Served : CheckRespond(r) /\ UNCHANGED <<jobVars, keyVars, viewVars, dialogVars, statVars, httpVars>>
  \/ \E r \in Served, k \in BookKeys, v \in {TheVoice, <<>>} :
        StartStatus(r, k, v) /\ UNCHANGED <<jobVars, keyVars, viewVars, dialogVars, statVars, httpVars>>
  \/ \E r \in Served : StatusScan(r) /\ UNCHANGED <<jobVars, keyVars, viewVars, dialogVars, statVars, httpVars>>

LookupSpec == SeqInit /\ [][LookupNext]_vars

\* the synthesis and stats routes: the texts of one book are synthesized in
\* either voice, the cache is aggregated and evicted with every filter
AdminInit == JobInit /\ ApiInit /\ NoKeys /\ NoView /\ NoDialog /\ NoStats /\ NoHttp

\* the filters of an eviction: a book, a voice, both or none
BookFilters == {<<>>, <<"h">>, <<"g">>}

AdminNext ==
  \/ \E r \in Served, t \in StoreTexts, v \in Voices :
        StartAlone(r, <<"h", "-", "s">>, t, v) /\ UNCHANGED <<jobVars, keyVars, viewVars, dialogVars, statVars, httpVars>>
  \/ \E r \in Served : AccessNested(r) /\ UNCHANGED <<jobVars, keyVars, viewVars, dialogVars, statVars, httpVars>>
  \/ \E r \in Served : AccessLegacy(r) /\ UNCHANGED <<jobVars, keyVars, viewVars, dialogVars, statVars, httpVars>>
  \/ \E r \in Served : MigReadAudio(r) /\ UNCHANGED <<jobVars, keyVars, viewVars, dialogVars, statVars, httpVars>>
  \/ \E r \in Served : MigWriteAudio(r) /\ UNCHANGED <<jobVars, keyVars, viewVars, dialogVars, statVars, httpVars>>
  \/ \E r \in Served : MigReadMeta(r) /\ UNCHANGED <<jobVars, keyVars, viewVars, dialogVars, statVars, httpVars>>
  \/ \E r \in Served : MigWriteMeta(r) /\ UNCHANGED <<jobVars, keyVars, viewVars, dialogVars, statVars, httpVars>>
  \/ \E r \in Served : MigUnlinkAudio(r) /\ UNCHANGED <<jobVars, keyVars, viewVars, dialogVars, statVars, httpVars>>
  \/ \E r \in Served : MigUnlinkMeta(r) /\ UNCHANGED <<jobVars, keyVars, viewVars, dialogVars, statVars, httpVars>>
  \/ \E r \in Served : UpdReadMeta(r) /\ UNCHANGED <<jobVars, keyVars, viewVars, dialogVars, statVars, httpVars>>
  \/ \E r \in Served : UpdWriteMeta(r) /\ UNCHANGED <<jobVars, keyVars, viewVars, dialogVars, statVars, httpVars>>
  \/ \E r \in Served : GetCachedAudio(r) /\ UNCHANGED <<jobVars, keyVars, viewVars, dialogVars, statVars, httpVars>>
  \/ \E r \in Served : SynthFails(r) /\ UNCHANGED <<jobVars, keyVars, viewVars, dialogVars, statVars, httpVars>>
  \/ \E r \in Served : CacheWriteAudio(r) /\ UNCHANGED <<jobVars, keyVars, viewVars, dialogVars, statVars, httpVars>>
  \/ \E r \in Served : CacheWriteMeta(r) /\ UNCHANGED <<jobVars, keyVars, viewVars, dialogVars, statVars, httpVars>>
  \/ \E r \in Served : SynthOk(r, "a2") /\ UNCHANGED <<jobVars, keyVars, viewVars, dialogVars, statVars, httpVars>>
  \/ \E r \in Served : StartStats(r) /\ UNCHANGED <<jobVars, keyVars, viewVars, dialogVars, statVars, httpVars>>
  \/ \E r \in Served : StatsReaddir(r) /\ UNCHANGED <<jobVars, keyVars, viewVars, dialogVars, statVars, httpVars>>
  \/ \E r \in Served, k \in Keys : StatsFile(r, k) /\ UNCHANGED <<jobVars, keyVars, viewVars, dialogVars, statVars, httpVars>>
  \/ \E r \in Served : StatsRespond(r) /\ UNCHANGED <<jobVars, keyVars, viewVars, dialogVars, statVars, httpVars>>
  \/ \E r \in Served, b \in BookFilters, v \in Voices \cup {<<>>} :
        StartEvict(r, b, v) /\ UNCHANGED <<jobVars, keyVars, viewVars, dialogVars, statVars, httpVars>>
  \/ \E r \in Served : EvictReaddir(r) /\ UNCHANGED <<jobVars, keyVars, viewVars, dialogVars, statVars, httpVars>>
  \/ \E r \in Served, k \in Keys : EvictFile(r, k) /\ UNCHANGED <<jobVars, keyVars, viewVars, dialogVars, statVars, httpVars>>
  \/ \E r \in Served : EvictRespond(r) /\ UNCHANGED <<jobVars, keyVars, viewVars, dialogVars, statVars, httpVars>>

AdminSpec == AdminInit /\ [][AdminNext]_vars

\* the two routes deriving the cache keys of two texts
KeyInit0 == JobInit /\ NoRequests /\ KeyInit /\ NoView /\ NoDialog /\ NoStats /\ NoHttp

KeyNext ==
  \/ SynthDerive /\ UNCHANGED <<jobVars, storeVars, viewVars, dialogVars, statVars, httpVars>>
  \/ CheckDerive /\ UNCHANGED <<jobVars, storeVars, viewVars, dialogVars, statVars, httpVars>>

KeySpec == KeyInit0 /\ [][KeyNext]_vars

\* extractBookText on every book of at most MaxPages pages, with view calls that
\* resolve or reject, then the cache check and the synthesis of the chunks
ExtractInit == JobInit /\ NoRequests /\ NoKeys /\ ViewInit /\ NoDialog /\ NoStats /\ NoHttp

ExtractNext ==
  \/ \E ok \in BOOLEAN : XStart(ok) /\ UNCHANGED <<jobVars, storeVars, keyVars, dialogVars, statVars, httpVars>>
  \/ \E ok \in BOOLEAN : XGetCFI(ok) /\ UNCHANGED <<jobVars, storeVars, keyVars, dialogVars, statVars, httpVars>>
  \/ \E ok \in BOOLEAN : XGoToStart(ok) /\ UNCHANGED <<jobVars, storeVars, keyVars, dialogVars, statVars, httpVars>>
  \/ \E ok \in BOOLEAN : XFirstPage(ok) /\ UNCHANGED <<jobVars, storeVars, keyVars, dialogVars, statVars, httpVars>>
  \/ \E ok \in BOOLEAN : XNext(ok) /\ UNCHANGED <<jobVars, storeVars, keyVars, dialogVars, statVars, httpVars>>
  \/ \E ok \in BOOLEAN : XPage(ok) /\ UNCHANGED <<jobVars, storeVars, keyVars, dialogVars, statVars, httpVars>>
  \/ \E ok \in BOOLEAN : XRestore(ok) /\ UNCHANGED <<jobVars, storeVars, keyVars, dialogVars, statVars, httpVars>>
  \/ XCheck /\ UNCHANGED <<jobVars, storeVars, keyVars, dialogVars, statVars, httpVars>>
  \/ XSynthesize /\ UNCHANGED <<jobVars, storeVars, keyVars, dialogVars, statVars, httpVars>>

ExtractSpec == ExtractInit /\ [][ExtractNext]_vars

\* the dialog of one book: its buttons, the job they drive and the timer of
\* handleCancel; requests succeed or fail, extraction and check may throw
DialogSpecInit == JobInit /\ NoRequests /\ NoKeys /\ NoView /\ DialogInit /\ NoStats /\ NoHttp

DialogNext ==
  \/ handleStart /\ UNCHANGED <<storeVars, keyVars, viewVars, statVars, httpVars>>
  \/ \E n \in 0..MaxShown : ExtractDone(n) /\ ReportsMirrored /\ UNCHANGED <<storeVars, keyVars, viewVars, statVars, httpVars>>
  \/ JobThrows /\ ReportsMirrored /\ UNCHANGED <<storeVars, keyVars, viewVars, statVars, httpVars>>
  \/ \E cached \in CachedChoices(allTexts) : CheckDone(cached) /\ ReportsMirrored /\ UNCHANGED <<storeVars, keyVars, viewVars, statVars, httpVars>>
  \/ Wake /\ ReportsMirrored /\ UNCHANGED <<storeVars, keyVars, viewVars, statVars, httpVars>>
  \/ \E c \in 1..MaxShown : Succeed(c) /\ ReportsMirrored /\ UNCHANGED <<storeVars, keyVars, viewVars, statVars, httpVars>>
  \/ \E c \in 1..MaxShown : Fail(c) /\ ReportsMirrored /\ UNCHANGED <<storeVars, keyVars, viewVars, statVars, httpVars>>
  \/ handlePause /\ UNCHANGED <<storeVars, keyVars, viewVars, statVars, httpVars>>
  \/ handleResume /\ UNCHANGED <<storeVars, keyVars, viewVars, statVars, httpVars>>
  \/ handleCancel /\ UNCHANGED <<storeVars, keyVars, viewVars, statVars, httpVars>>
  \/ RemoveTimerFires /\ UNCHANGED <<storeVars, keyVars, viewVars, statVars, httpVars>>

DialogSpec == DialogSpecInit /\ [][DialogNext]_vars

\* the dialog of a book of MaxShown chunks, none of them cached, whose requests
\* succeed: the dialog is closed and opened again while the job runs; the
\* buttons are pressed while fewer than MaxMirrored states were mirrored
ReopenNext ==
  \/ handleStart /\ UNCHANGED <<storeVars, keyVars, viewVars, statVars, httpVars>>
  \/ ExtractDone(MaxShown) /\ ReportsMirrored /\ UNCHANGED <<storeVars, keyVars, viewVars, statVars, httpVars>>
  \/ CheckDone({}) /\ ReportsMirrored /\ UNCHANGED <<storeVars, keyVars, viewVars, statVars, httpVars>>
  \/ Wake /\ ReportsMirrored /\ UNCHANGED <<storeVars, keyVars, viewVars, statVars, httpVars>>
  \/ \E c \in 1..MaxShown : Succeed(c) /\ ReportsMirrored /\ UNCHANGED <<storeVars, keyVars, viewVars, statVars, httpVars>>
  \/ \E c \in 1..MaxShown : Fail(c) /\ ReportsMirrored /\ UNCHANGED <<storeVars, keyVars, viewVars, statVars, httpVars>>
  \/ Len(mirrored) < MaxMirrored /\ handlePause /\ UNCHANGED <<storeVars, keyVars, viewVars, statVars, httpVars>>
  \/ Len(mirrored) < MaxMirrored /\ handleResume /\ UNCHANGED <<storeVars, keyVars, viewVars, statVars, httpVars>>
  \/ Len(mirrored) < MaxMirrored /\ handleCancel /\ UNCHANGED <<storeVars, keyVars, viewVars, statVars, httpVars>>
  \/ RemoveTimerFires /\ UNCHANGED <<storeVars, keyVars, viewVars, statVars, httpVars>>
  \/ handleClose /\ UNCHANGED <<storeVars, keyVars, viewVars, statVars, httpVars>>
  \/ Reopen /\ UNCHANGED <<storeVars, keyVars, viewVars, statVars, httpVars>>
  \/ Sync /\ UNCHANGED <<storeVars, keyVars, viewVars, statVars, httpVars>>

ReopenSpec == DialogSpecInit /\ [][ReopenNext]_vars

\* updateProgress called once, with the arguments of any call of preCacheBook
PercentNext ==
  \E call \in Calls :
    /\ reports = <<>>
    /\ updateProgress(call[1], call[2], call[3])
    /\ UNCHANGED <<jpc, hasController, aborted, isPaused, allTexts, uncachedTexts, i,
                   completed, inflight, succeeded, failedReq, cancelAt, backendFailed,
                   pauses, slept>>
    /\ UNCHANGED <<storeVars, keyVars, viewVars, dialogVars, statVars, httpVars>>

PercentSpec == Init /\ [][PercentNext]_vars

\* the lists of the statistics, computed for any collected metadata
TopInit == JobInit /\ NoRequests /\ NoKeys /\ NoView /\ NoDialog /\ StatsInit /\ NoHttp

TopNext == StatsLists /\ UNCHANGED <<jobVars, storeVars, keyVars, viewVars, dialogVars, httpVars>>

TopSpec == TopInit /\ [][TopNext]_vars

\* one request to one of the routes, answered
HttpSpecInit == JobInit /\ NoRequests /\ NoKeys /\ NoView /\ NoDialog /\ NoStats /\ HttpInit

HttpNext ==
  \/ Responds("synthesize", synthesize_POST(hreq)) /\ UNCHANGED <<jobVars, storeVars, keyVars, viewVars, dialogVars, statVars>>
  \/ Responds("check", check_POST(hreq)) /\ UNCHANGED <<jobVars, storeVars, keyVars, viewVars, dialogVars, statVars>>
  \/ Responds("load-model", loadModel_POST(hreq)) /\ UNCHANGED <<jobVars, storeVars, keyVars, viewVars, dialogVars, statVars>>

HttpSpec == HttpSpecInit /\ [][HttpNext]_vars

====
